---- MODULE Spec2Model ----
(***************************************************************************)
(* Model of the weather core of the NASA Weather Data API:                 *)
(*   ValidationService  (src/src/services/validationService.js)            *)
(*   WeatherController  (src/src/controllers/weatherController.js)         *)
(*   NasaPowerApiService (src/unnamed/part_017)                            *)
(*   WeatherDataService (src/src/services/weatherDataService.js)           *)
(*   ErrorHandler       (src/src/middleware/errorHandler.js)               *)
(*   config             (src/unnamed/part_012)                             *)
(*                                                                         *)
(* Conventions.  A JavaScript string that the code takes apart (dates,     *)
(* hour keys) is a sequence of one-character strings.  A weather value is  *)
(* an integer number of hundredths (10.00 is 1000), so that toFixed(2) is  *)
(* a rounding of an integer quotient.  A value that may be undefined is    *)
(* Omitted or Given(v); an Invalid Date is a date record with valid FALSE. *)
(***************************************************************************)
EXTENDS Integers, Sequences, FiniteSets, TLC

VARIABLES
    today,      \* the calendar day of `new Date()` while the request is handled
    delayDays,  \* config.weather.nasaDataDelayDays as read by the controller
    upstream,   \* the provider's behaviour: year of the fetched day -> attempts
    kind,       \* "get" (GET /api/weather/data), "bulk" (POST /api/weather/bulk),
                \* "aggregate" (a direct call of the aggregation functions)
    input,      \* req.query / req.body / the arguments of the direct call
    pc,         \* position of the handler
    pipes,      \* one record per weather pipeline (one for GET, one per bulk item)
    response,   \* what was sent to the client, or NoResponse
    aggregated, \* the outcome of a direct call of the aggregation functions
    sendCalls   \* how often res.json or res.send was called for the request

vars == <<today, delayDays, upstream, kind, input, pc, pipes, response, aggregated,
          sendCalls>>

\* an optional value: undefined, or the value v
Omitted == <<>>
Given(v) == <<v>>
IsGiven(o) == Len(o) = 1
ValueOf(o) == o[1]

InvalidDate == [valid |-> FALSE, y |-> 0, m |-> 0, d |-> 0]
Day(y, m, d) == [valid |-> TRUE, y |-> y, m |-> m, d |-> d]

-----------------------------------------------------------------------------
(* Strings                                                                 *)

Digits == <<"0", "1", "2", "3", "4", "5", "6", "7", "8", "9">>

IsDigit(c) == \E i \in 1..10 : Digits[i] = c

DigitVal(c) == (CHOOSE i \in 1..10 : Digits[i] = c) - 1

AllDigits(s) == \A i \in 1..Len(s) : IsDigit(s[i])

RECURSIVE StrToNat(_)
StrToNat(s) ==
    IF Len(s) = 0 THEN 0
    ELSE 10 * StrToNat(SubSeq(s, 1, Len(s) - 1)) + DigitVal(s[Len(s)])

\* Number.prototype.toString of a non-negative integer
RECURSIVE NatToStr(_)
NatToStr(n) ==
    IF n < 10 THEN <<Digits[n + 1]>>
    ELSE NatToStr(n \div 10) \o <<Digits[(n % 10) + 1]>>

\* String.prototype.padStart(n, c)
RECURSIVE padStart(_, _, _)
padStart(s, n, c) == IF Len(s) >= n THEN s ELSE padStart(<<c>> \o s, n, c)

\* String.prototype.replace(/-/g, '')
RECURSIVE removeDashes(_)
removeDashes(s) ==
    IF Len(s) = 0 THEN <<>>
    ELSE IF Head(s) = "-" THEN removeDashes(Tail(s))
    ELSE <<Head(s)>> \o removeDashes(Tail(s))

\* String.prototype.slice(-2)
sliceLast2(s) == IF Len(s) <= 2 THEN s ELSE SubSeq(s, Len(s) - 1, Len(s))

\* String.prototype.slice(5)
sliceFrom5(s) == IF Len(s) <= 5 THEN <<>> ELSE SubSeq(s, 6, Len(s))

-----------------------------------------------------------------------------
(* Calendar: a Date at local midnight is a record [y, m, d]; DayNumber     *)
(* orders them as their time values are ordered.                           *)

IsLeap(y) == (y % 4 = 0 /\ y % 100 # 0) \/ y % 400 = 0

DaysInMonth(y, m) ==
    IF m = 2 THEN (IF IsLeap(y) THEN 29 ELSE 28)
    ELSE IF m \in {4, 6, 9, 11} THEN 30 ELSE 31

CumDays == <<0, 31, 59, 90, 120, 151, 181, 212, 243, 273, 304, 334>>

DayNumber(dt) ==
    365 * (dt.y - 1) + ((dt.y - 1) \div 4) - ((dt.y - 1) \div 100)
    + ((dt.y - 1) \div 400)
    + CumDays[dt.m] + (IF dt.m > 2 /\ IsLeap(dt.y) THEN 1 ELSE 0) + dt.d

\* date-fns parseISO of a string; InvalidDate when it is not a calendar day
parseISO(s) ==
    IF /\ Len(s) = 10
       /\ s[5] = "-" /\ s[8] = "-"
       /\ AllDigits(SubSeq(s, 1, 4))
       /\ AllDigits(SubSeq(s, 6, 7))
       /\ AllDigits(SubSeq(s, 9, 10))
    THEN LET y == StrToNat(SubSeq(s, 1, 4))
             m == StrToNat(SubSeq(s, 6, 7))
             d == StrToNat(SubSeq(s, 9, 10))
         IN  IF m \in 1..12 /\ d >= 1 /\ d <= DaysInMonth(y, m)
             THEN Day(y, m, d)
             ELSE InvalidDate
    ELSE InvalidDate

isValid(dt) == dt.valid

\* date-fns addYears: same month and day, the day clamped to the month
addYears(dt, n) ==
    Day(dt.y + n, dt.m,
        IF dt.d > DaysInMonth(dt.y + n, dt.m)
        THEN DaysInMonth(dt.y + n, dt.m) ELSE dt.d)

\* a < b on two Dates: false as soon as one of them is an Invalid Date
DateLess(a, b) ==
    /\ a.valid
    /\ b.valid
    /\ DayNumber(a) < DayNumber(b)

\* date-fns format(date, 'MM-dd')
formatMonthDay(dt) ==
    padStart(NatToStr(dt.m), 2, "0") \o <<"-">> \o padStart(NatToStr(dt.d), 2, "0")

-----------------------------------------------------------------------------
(* Configuration                                                           *)

minLatitude == -90
maxLatitude == 90
minLongitude == -180
maxLongitude == 180
minDate == <<"1", "9", "8", "1", "-", "0", "1", "-", "0", "1">>
maxFutureYears == 10
minHistoricalYears == 5
maxHistoricalYears == 30
defaultHistoricalYears == 20
maxParametersPerRequest == 20
fillValue == -99900
retryAttempts == 3
maxBulkRequests == 10
defaultParameters == <<"T2M", "RH2M", "WS10M", "WD10M", "PS", "ALLSKY_SFC_SW_DWN">>

\* the weather section of the configuration has no nasaDataDelayDays key
nasaDataDelayDays == Omitted

\* the value README/FIX_SUMMARY document for NASA_DATA_DELAY_DAYS
documentedDelayDays == 4

getValidParameters ==
    {"T2M", "RH2M", "WS10M", "WD10M", "PS", "ALLSKY_SFC_SW_DWN",
     "PRECTOTCORR", "T2MDEW", "CLRSKY_SFC_SW_DWN", "ALLSKY_SFC_LW_DWN",
     "T2M_MAX", "T2M_MIN", "T2M_RANGE", "WS2M", "WS50M",
     "ALLSKY_TOA_SW_DWN", "CLRSKY_SFC_LW_DWN"}

-----------------------------------------------------------------------------
(* ValidationService.  The result of one key is Valid(v) or Invalid(type). *)

Valid(v) == [ok |-> TRUE, value |-> v, error |-> ""]
Invalid(e) == [ok |-> FALSE, value |-> Omitted, error |-> e]

NoMatch == [matched |-> FALSE, year |-> <<>>, month |-> <<>>, day |-> <<>>]

\* /^(\d{4})-(\d{1,2})-(\d{1,2})$/ : the three groups of the match
matchFlexiblePattern(value) ==
    IF Len(value) < 8 \/ Len(value) > 10 THEN NoMatch
    ELSE IF value[5] # "-" THEN NoMatch
    ELSE LET k == IF value[7] = "-" THEN 7 ELSE 8
             year == SubSeq(value, 1, 4)
             month == SubSeq(value, 6, k - 1)
             day == SubSeq(value, k + 1, Len(value))
         IN  IF /\ value[k] = "-"
                /\ AllDigits(year)
                /\ Len(month) \in 1..2 /\ AllDigits(month)
                /\ Len(day) \in 1..2 /\ AllDigits(day)
             THEN [matched |-> TRUE, year |-> year, month |-> month, day |-> day]
             ELSE NoMatch

\* config.validation.datePattern  /^\d{4}-\d{2}-\d{2}$/
datePattern(value) ==
    /\ Len(value) = 10
    /\ value[5] = "-" /\ value[8] = "-"
    /\ AllDigits(SubSeq(value, 1, 4))
    /\ AllDigits(SubSeq(value, 6, 7))
    /\ AllDigits(SubSeq(value, 9, 10))

\* the zero-padding step of the date rule
normalizeDate(value) ==
    LET match == matchFlexiblePattern(value)
    IN  IF match.matched
        THEN match.year \o <<"-">> \o padStart(match.month, 2, "0")
                        \o <<"-">> \o padStart(match.day, 2, "0")
        ELSE value

\* validateDate if it handed on the value as it was written
validateDate_raw(value, now) ==
    IF ~matchFlexiblePattern(value).matched /\ ~datePattern(value)
    THEN Invalid("date.format")
    ELSE LET normalizedDate == normalizeDate(value)
             inputDate == parseISO(normalizedDate)
             maxDate == addYears(now, maxFutureYears)
         IN  IF ~isValid(inputDate) THEN Invalid("date.invalid")
             ELSE IF DateLess(inputDate, parseISO(minDate))
                     \/ DateLess(maxDate, inputDate)
             THEN Invalid("date.range")
             ELSE Valid(value)

\* the custom rule of the `date` key of getWeatherDataSchema
validateDate(value, now) ==
    IF ~matchFlexiblePattern(value).matched /\ ~datePattern(value)
    THEN Invalid("date.format")
    ELSE LET normalizedDate == normalizeDate(value)
             inputDate == parseISO(normalizedDate)
             maxDate == addYears(now, maxFutureYears)
         IN  IF ~isValid(inputDate) THEN Invalid("date.invalid")
             ELSE IF DateLess(inputDate, parseISO(minDate))
                     \/ DateLess(maxDate, inputDate)
             THEN Invalid("date.range")
             ELSE Valid(normalizedDate)

\* validateNumber if the upper limit were not enforced
validateNumber_noMax(value, lo, hi) ==
    IF value < lo THEN Invalid("number.min")
    ELSE Valid(value)

\* Joi.number().min(lo).max(hi)
validateNumber(value, lo, hi) ==
    IF value < lo THEN Invalid("number.min")
    ELSE IF value > hi THEN Invalid("number.max")
    ELSE Valid(value)

\* [...new Set(params)]
RECURSIVE unique(_)
unique(s) ==
    IF Len(s) = 0 THEN <<>>
    ELSE LET init == unique(SubSeq(s, 1, Len(s) - 1))
             last == s[Len(s)]
         IN  IF \E i \in 1..Len(init) : init[i] = last THEN init
             ELSE Append(init, last)

\* A comma-separated string is the sequence of its tokens; the empty string
\* is <<>> and String.prototype.split(',') of it is one empty token.
split(str) == IF str = <<>> THEN <<"">> ELSE str

\* the custom rule of the `parameters` key.  Joi runs no rule on an omitted
\* optional key and the key has no default: the value stays undefined.
validateParameters(value) ==
    IF ~IsGiven(value) THEN Valid(Omitted)
    ELSE LET params == SelectSeq(ValueOf(value), LAMBDA p : p # "")
             uniqueParams == unique(params)
         IN  IF Len(ValueOf(value)) = 0 THEN Invalid("string.empty")
             ELSE IF Len(uniqueParams) > maxParametersPerRequest
             THEN Invalid("parameters.tooMany")
             ELSE IF \E i \in 1..Len(uniqueParams) :
                         uniqueParams[i] \notin getValidParameters
             THEN Invalid("parameters.invalid")
             ELSE Valid(Given(uniqueParams))

\* Joi.number().integer().min().max().optional().default()
validateHistoricalYears(value) ==
    IF ~IsGiven(value) THEN Valid(defaultHistoricalYears)
    ELSE IF ValueOf(value) < minHistoricalYears THEN Invalid("number.min")
    ELSE IF ValueOf(value) > maxHistoricalYears THEN Invalid("number.max")
    ELSE Valid(ValueOf(value))

\* Joi.string().valid('json', 'csv').optional().default('json')
validateFormat(value) ==
    IF ~IsGiven(value) THEN Valid("json")
    ELSE IF ValueOf(value) \in {"json", "csv"} THEN Valid(ValueOf(value))
    ELSE Invalid("any.only")

NoError == [field |-> "", type |-> ""]

\* the first failing key of a list of <<field, result>> pairs, in key order
RECURSIVE firstError(_)
firstError(results) ==
    IF Len(results) = 0 THEN NoError
    ELSE IF ~Head(results)[2].ok
    THEN [field |-> Head(results)[1], type |-> Head(results)[2].error]
    ELSE firstError(Tail(results))

validateWeatherRequest(data, now) ==
    LET latitude == validateNumber(data.latitude, minLatitude, maxLatitude)
        longitude == validateNumber(data.longitude, minLongitude, maxLongitude)
        date == validateDate(data.date, now)
        parameters == validateParameters(data.parameters)
        historicalYears == validateHistoricalYears(data.historicalYears)
        format == validateFormat(data.format)
        error == firstError(<< <<"latitude", latitude>>, <<"longitude", longitude>>,
                               <<"date", date>>, <<"parameters", parameters>>,
                               <<"historicalYears", historicalYears>>,
                               <<"format", format>> >>)
    IN  IF error # NoError
        THEN [isValid |-> FALSE, errors |-> <<error>>, data |-> Omitted]
        ELSE [isValid |-> TRUE, errors |-> <<>>,
              data |-> Given([latitude |-> latitude.value,
                              longitude |-> longitude.value,
                              date |-> date.value,
                              parameters |-> parameters.value,
                              historicalYears |-> historicalYears.value,
                              format |-> format.value])]

\* one item of the bulk schema: only the strict pattern is asked of the date
validateBulkItem(item) ==
    LET latitude == validateNumber(item.latitude, -90, 90)
        longitude == validateNumber(item.longitude, -180, 180)
        date == IF ~datePattern(item.date) THEN Invalid("string.pattern.base")
                ELSE Valid(item.date)
    IN  firstError(<< <<"latitude", latitude>>, <<"longitude", longitude>>,
                      <<"date", date>> >>)

validateBulkRequest(data) ==
    LET requests == data.requests
        itemErrors == SelectSeq([i \in 1..Len(requests) |->
                                    validateBulkItem(requests[i])],
                                LAMBDA e : e # NoError)
        historicalYears == validateHistoricalYears(data.historicalYears)
        error ==
            IF Len(itemErrors) > 0 THEN Head(itemErrors)
            ELSE IF Len(requests) < 1
            THEN [field |-> "requests", type |-> "array.min"]
            ELSE IF Len(requests) > maxBulkRequests
            THEN [field |-> "requests", type |-> "array.max"]
            ELSE IF ~historicalYears.ok
            THEN [field |-> "historicalYears", type |-> historicalYears.error]
            ELSE NoError
    IN  IF error # NoError
        THEN [isValid |-> FALSE, errors |-> <<error>>, data |-> Omitted]
        ELSE [isValid |-> TRUE, errors |-> <<>>,
              data |-> Given([requests |-> requests,
                              historicalYears |-> historicalYears.value])]

-----------------------------------------------------------------------------
(* The provider (NASA POWER).  One HTTP attempt ends in one of:            *)
(*   Ok(shape)        status 200 with a body of the given shape            *)
(*   Non200(status)   another 2xx status, which axios resolves             *)
(*   HttpError(status) axios rejects with error.response.status            *)
(*   TransportError(code) axios rejects without a response                 *)

Ok(shape) == [t |-> "ok", shape |-> shape, code |-> "", status |-> 200]
Non200(status) == [t |-> "status", shape |-> "", code |-> "", status |-> status]
HttpError(status) ==
    [t |-> "error", shape |-> "", code |-> "ERR_BAD_RESPONSE", status |-> status]
TransportError(code) == [t |-> "error", shape |-> "", code |-> code, status |-> 0]

HoursPerDay == 24
Hours == 0..(HoursPerDay - 1)

hourString(hour) == padStart(NatToStr(hour), 2, "0")

\* Body shapes.  A: every hour observed.  B: fill at the even hours, the
\* parameters listed in reverse order.  C: only the first requested parameter
\* and only the hours 0..11, hour 0 being fill.
\* D: fill from hour 18 on.  F: every hour is fill.  The values are
\* multiples of 0.5, which binary floating point adds and halves exactly.
Shapes == {"A", "B", "C", "D", "F"}

ShapeParams(shape, parameters) ==
    LET u == unique(parameters)
    IN  IF shape = "B" THEN [i \in 1..Len(u) |-> u[Len(u) + 1 - i]]
        ELSE IF shape = "C" THEN SubSeq(u, 1, 1)
        ELSE u

\* the hours the body has a key for, in key order
ShapeHours(shape) ==
    IF shape = "C" THEN [i \in 1..12 |-> i - 1]
    ELSE [i \in 1..HoursPerDay |-> i - 1]

ShapeValue(shape, year, hour) ==
    IF shape = "A" THEN 1000 + 100 * hour + 50 * (year % 4)
    ELSE IF shape = "B" THEN (IF hour % 2 = 0 THEN fillValue ELSE 1200)
    ELSE IF shape = "C" THEN (IF hour = 0 THEN fillValue ELSE 0 - 300 - 50 * hour)
    ELSE IF shape = "D" THEN (IF hour < 18 THEN 500 + 50 * hour ELSE fillValue)
    ELSE fillValue

\* The JSON body the provider returns for one day.  An object is the
\* sequence of its entries in the order Object.keys lists them: hour keys
\* are integer-like and come in ascending order.
MkBody(shape, latitude, longitude, start, parameters) ==
    LET names == ShapeParams(shape, parameters)
        year == StrToNat(SubSeq(start, 1, 4))
        hours == ShapeHours(shape)
        series == [i \in 1..Len(hours) |->
                      [key |-> start \o hourString(hours[i]),
                       value |-> ShapeValue(shape, year, hours[i])]]
    IN  [coordinates |-> <<longitude, latitude, 0>>,
         parameter |-> [i \in 1..Len(names) |->
                           [name |-> names[i], values |-> series]]]

NoBody == [shape |-> "", latitude |-> 0, longitude |-> 0]

-----------------------------------------------------------------------------
(* NasaPowerApiService                                                     *)

retryDelay == 1000

\* formatDateForApi
formatDateForApi(dateString) == removeDashes(dateString)

\* the retry loop of makeRequest from attempt number `attempt` on:
\* the response it returns, or the lastError it throws (Omitted: undefined)
RECURSIVE makeRequestLoop(_, _, _, _)
makeRequestLoop(script, attempt, lastError, waits) ==
    IF attempt > retryAttempts
    THEN [returned |-> FALSE, shape |-> "", lastError |-> lastError,
          attempts |-> attempt - 1, waits |-> waits]
    ELSE LET outcome == script[attempt]
         IN  IF outcome.t = "ok"
             THEN [returned |-> TRUE, shape |-> outcome.shape,
                   lastError |-> lastError, attempts |-> attempt, waits |-> waits]
             ELSE IF outcome.t = "status"
             THEN makeRequestLoop(script, attempt + 1, lastError, waits)
             ELSE makeRequestLoop(script, attempt + 1, Given(outcome),
                      IF attempt < retryAttempts
                      THEN Append(waits, retryDelay * attempt) ELSE waits)

makeRequest(script) == makeRequestLoop(script, 1, Omitted, <<>>)

\* an Error object: code "" and statusCode 0 stand for absent properties
Error(name, message, code, statusCode, upstreamStatus) ==
    [name |-> name, message |-> message, code |-> code,
     statusCode |-> statusCode, upstreamStatus |-> upstreamStatus,
     yearErrors |-> <<>>]

\* handleApiError if a 429 of the provider were passed on as a rate limit
handleApiError_rateLimit(error) ==
    IF error.code \in {"ECONNABORTED", "ETIMEDOUT"}
    THEN Error("Error", "NASA POWER API request timed out", "API_TIMEOUT", 504, 0)
    ELSE IF error.status = 429
    THEN Error("Error", "NASA API rate limit exceeded", "RATE_LIMIT", 429, 429)
    ELSE IF error.status # 0
    THEN Error("Error", "NASA POWER API error (status)",
               "EXTERNAL_API_ERROR", 502, error.status)
    ELSE IF error.code \in {"ENOTFOUND", "ECONNREFUSED"}
    THEN Error("Error", "Unable to connect to NASA POWER API", "NETWORK_ERROR", 502, 0)
    ELSE Error("Error", "Unexpected error while fetching NASA data",
               "EXTERNAL_API_ERROR", 502, 0)

handleApiError(error) ==
    IF error.code \in {"ECONNABORTED", "ETIMEDOUT"}
    THEN Error("Error", "NASA POWER API request timed out", "API_TIMEOUT", 504, 0)
    ELSE IF error.status # 0
    THEN Error("Error",
               CASE error.status = 400 -> "Invalid request parameters sent to NASA API"
                 [] error.status = 429 -> "NASA API rate limit exceeded"
                 [] error.status = 500 -> "NASA POWER API internal server error"
                 [] error.status = 503 -> "NASA POWER API service unavailable"
                 [] OTHER -> "NASA POWER API error (status)",
               "EXTERNAL_API_ERROR", 502, error.status)
    ELSE IF error.code \in {"ENOTFOUND", "ECONNREFUSED"}
    THEN Error("Error", "Unable to connect to NASA POWER API", "NETWORK_ERROR", 502, 0)
    ELSE Error("Error", "Unexpected error while fetching NASA data",
               "EXTERNAL_API_ERROR", 502, 0)

\* reading error.message of the undefined lastError inside the catch block
TypeErrorOfUndefined ==
    Error("TypeError", "Cannot read properties of undefined (reading 'message')",
          "", 0, 0)

\* fetchWeatherData: the settled promise, with the query sent to the provider.
\* A resolved promise holds the body by the shape the provider gave it;
\* responseData spells the body out.
fetchWeatherData(latitude, longitude, startDate, endDate, parameters, script) ==
    LET params == [start |-> formatDateForApi(startDate),
                   end |-> formatDateForApi(endDate),
                   parameters |-> parameters]
        r == makeRequest(script)
    IN  IF r.returned
        THEN [ok |-> TRUE, params |-> params, attempts |-> r.attempts,
              data |-> [shape |-> r.shape, latitude |-> latitude,
                        longitude |-> longitude],
              error |-> Error("", "", "", 0, 0)]
        ELSE [ok |-> FALSE, params |-> params, attempts |-> r.attempts,
              data |-> NoBody,
              error |-> IF IsGiven(r.lastError)
                        THEN handleApiError(ValueOf(r.lastError))
                        ELSE TypeErrorOfUndefined]

responseData(result) ==
    MkBody(result.data.shape, result.data.latitude, result.data.longitude,
           result.params.start, result.params.parameters)

\* historicalRequests if the years were counted back from the target date's
\* year
historicalRequests_targetYear(targetDate, historicalYears, now) ==
    LET monthDay == formatMonthDay(parseISO(targetDate))
        targetYear == parseISO(targetDate).y
    IN  [i \in 1..historicalYears |->
            [year |-> targetYear - i,
             date |-> NatToStr(targetYear - i) \o <<"-">> \o monthDay]]

\* the years and days fetchHistoricalDataForPrediction asks for, in order
historicalRequests(targetDate, historicalYears, now) ==
    LET monthDay == formatMonthDay(parseISO(targetDate))
    IN  [i \in 1..historicalYears |->
            [year |-> now.y - i,
             date |-> NatToStr(now.y - i) \o <<"-">> \o monthDay]]

-----------------------------------------------------------------------------
(* WeatherDataService                                                      *)

\* an object with ordered keys is a sequence of [name, values] entries
HasKey(object, name) == \E i \in 1..Len(object) : object[i].name = name

GetKey(object, name) ==
    object[CHOOSE i \in 1..Len(object) : object[i].name = name].values

RECURSIVE Sum(_)
Sum(s) == IF Len(s) = 0 THEN 0 ELSE Head(s) + Sum(Tail(s))

MinOf(s) == CHOOSE x \in {s[i] : i \in 1..Len(s)} : \A i \in 1..Len(s) : x <= s[i]
MaxOf(s) == CHOOSE x \in {s[i] : i \in 1..Len(s)} : \A i \in 1..Len(s) : x >= s[i]

\* Number((sum / n).toFixed(2)) on hundredths: the nearest hundredth, an
\* exact half going away from zero
toFixed2(sum, n) ==
    IF sum >= 0 THEN (2 * sum + n) \div (2 * n)
    ELSE 0 - ((2 * (0 - sum) + n) \div (2 * n))

\* formatHourKey if the hour were not padded to two digits
formatHourKey_unpadded(date, hour) == removeDashes(date) \o NatToStr(hour)

\* formatHourKey
formatHourKey(date, hour) == removeDashes(date) \o hourString(hour)

\* getHistoricalHourKey if a series without the hour gave its last key
getHistoricalHourKey_last(parameterData, targetHour) ==
    LET hourStr == hourString(targetHour)
        found == SelectSeq(parameterData,
                           LAMBDA entry : sliceLast2(entry.key) = hourStr)
    IN  IF Len(found) = 0
        THEN (IF Len(parameterData) = 0 THEN Omitted
              ELSE Given(parameterData[Len(parameterData)].key))
        ELSE Given(found[1].key)

\* getHistoricalHourKey: the first key, in key order, that ends in the hour
getHistoricalHourKey(parameterData, targetHour) ==
    LET hourStr == hourString(targetHour)
        found == SelectSeq(parameterData,
                           LAMBDA entry : sliceLast2(entry.key) = hourStr)
    IN  IF Len(found) = 0 THEN Omitted ELSE Given(found[1].key)

\* parameterData[key]
valueAt(parameterData, key) ==
    parameterData[CHOOSE i \in 1..Len(parameterData) :
                      parameterData[i].key = key].value

\* Object.values of an hourly series
seriesValues(series) == [i \in 1..Len(series) |-> series[i].value]

\* the value one year dataset holds for a parameter and an hour, if any
yearValue(yearData, param, hour) ==
    IF yearData.ok /\ HasKey(yearData.data.parameter, param)
    THEN LET parameterData == GetKey(yearData.data.parameter, param)
             historicalHourKey == getHistoricalHourKey(parameterData, hour)
         IN  IF IsGiven(historicalHourKey)
             THEN Given(valueAt(parameterData, ValueOf(historicalHourKey)))
             ELSE Omitted
    ELSE Omitted

\* hourValues if the fill sentinel were not filtered out
hourValues_keepFill(historicalDataArray, param, hour) ==
    LET all == [i \in 1..Len(historicalDataArray) |->
                   yearValue(historicalDataArray[i], param, hour)]
        kept == SelectSeq(all, IsGiven)
    IN  [i \in 1..Len(kept) |-> ValueOf(kept[i])]

\* the values pushed to hourValues for one parameter and hour
hourValues(historicalDataArray, param, hour) ==
    LET all == [i \in 1..Len(historicalDataArray) |->
                   yearValue(historicalDataArray[i], param, hour)]
        kept == SelectSeq(all, LAMBDA o : IsGiven(o) /\ ValueOf(o) # fillValue)
    IN  [i \in 1..Len(kept) |-> ValueOf(kept[i])]

\* hourlyAverage if an hour without values defaulted to zero
hourlyAverage_zero(historicalDataArray, param, hour) ==
    LET values == hourValues(historicalDataArray, param, hour)
    IN  IF Len(values) > 0 THEN toFixed2(Sum(values), Len(values))
        ELSE 0

\* one entry of hourlyAverages
hourlyAverage(historicalDataArray, param, hour) ==
    LET values == hourValues(historicalDataArray, param, hour)
    IN  IF Len(values) > 0 THEN toFixed2(Sum(values), Len(values))
        ELSE fillValue

calculatePrediction(historicalDataArray, targetDate, parameters) ==
    LET names == unique(parameters)
        valid == SelectSeq(historicalDataArray, LAMBDA item : item.ok)
        missing == SelectSeq(historicalDataArray, LAMBDA item : ~item.ok)
        validYears == [i \in 1..Len(valid) |-> valid[i].year]
    IN  [prediction |->
            [coordinates |-> IF Len(valid) > 0 THEN valid[1].data.coordinates
                             ELSE <<0, 0, 0>>,
             parameter |-> [i \in 1..Len(names) |->
                 [name |-> names[i],
                  values |-> [h \in 1..HoursPerDay |->
                      [key |-> formatHourKey(targetDate, h - 1),
                       value |-> hourlyAverage(historicalDataArray,
                                               names[i], h - 1)]]]]],
         metadata |->
            [yearsUsed |-> Len(validYears),
             totalDataPoints |-> Len(validYears) * HoursPerDay * Len(parameters),
             missingYears |-> [i \in 1..Len(missing) |-> missing[i].year],
             dateRange |-> IF Len(validYears) > 0
                           THEN <<MinOf(validYears), MaxOf(validYears)>>
                           ELSE <<>>]]

\* calculateConfidence if a ratio of exactly 0.5 were below "low"
calculateConfidence_above(availableDataPoints, totalPossibleDataPoints) ==
    IF totalPossibleDataPoints = 0
    THEN (IF availableDataPoints > 0 THEN "high" ELSE "very_low")
    ELSE IF 10 * availableDataPoints >= 9 * totalPossibleDataPoints THEN "high"
    ELSE IF 10 * availableDataPoints >= 7 * totalPossibleDataPoints THEN "medium"
    ELSE IF 10 * availableDataPoints > 5 * totalPossibleDataPoints THEN "low"
    ELSE "very_low"

calculateConfidence(availableDataPoints, totalPossibleDataPoints) ==
    IF totalPossibleDataPoints = 0
    THEN (IF availableDataPoints > 0 THEN "high" ELSE "very_low")
    ELSE IF 10 * availableDataPoints >= 9 * totalPossibleDataPoints THEN "high"
    ELSE IF 10 * availableDataPoints >= 7 * totalPossibleDataPoints THEN "medium"
    ELSE IF 10 * availableDataPoints >= 5 * totalPossibleDataPoints THEN "low"
    ELSE "very_low"

\* calculateReliability if the first threshold were one year too low
calculateReliability_early(yearsUsed, totalDataPoints) ==
    IF yearsUsed >= 14 /\ totalDataPoints > 0 THEN "high"
    ELSE IF yearsUsed >= 10 THEN "medium"
    ELSE IF yearsUsed >= 5 THEN "low"
    ELSE "very_low"

calculateReliability(yearsUsed, totalDataPoints) ==
    IF yearsUsed >= 15 /\ totalDataPoints > 0 THEN "high"
    ELSE IF yearsUsed >= 10 THEN "medium"
    ELSE IF yearsUsed >= 5 THEN "low"
    ELSE "very_low"

NoMetadata == [yearsUsed |-> 0, totalDataPoints |-> 0, missingYears |-> <<>>,
               dateRange |-> <<>>]

\* dailyAggregate if the fill sentinel were not filtered out of validValues
dailyAggregate_all(name, hourlyValues, dataType, predictionMetadata) ==
    LET validValues == seriesValues(hourlyValues)
    IN  IF Len(validValues) > 0
        THEN Given([name |-> name,
                    min |-> MinOf(validValues),
                    max |-> MaxOf(validValues),
                    mean |-> toFixed2(Sum(validValues), Len(validValues)),
                    confidence |->
                        IF dataType = "prediction"
                        THEN calculateConfidence(Len(validValues),
                                 predictionMetadata.totalDataPoints)
                        ELSE ""])
        ELSE Omitted

\* the dailyAggregates entry of one parameter, or Omitted without valid value
dailyAggregate(name, hourlyValues, dataType, predictionMetadata) ==
    LET validValues == SelectSeq(seriesValues(hourlyValues),
                                 LAMBDA value : value # fillValue)
    IN  IF Len(validValues) > 0
        THEN Given([name |-> name,
                    min |-> MinOf(validValues),
                    max |-> MaxOf(validValues),
                    mean |-> toFixed2(Sum(validValues), Len(validValues)),
                    confidence |->
                        IF dataType = "prediction"
                        THEN calculateConfidence(Len(validValues),
                                 predictionMetadata.totalDataPoints)
                        ELSE ""])
        ELSE Omitted

processWeatherData(nasaResponse, requestDate, dataType, predictionMetadata) ==
    LET parameterData == nasaResponse.parameter
        aggregates == [i \in 1..Len(parameterData) |->
                          dailyAggregate(parameterData[i].name,
                                         parameterData[i].values,
                                         dataType, predictionMetadata)]
        present == SelectSeq(aggregates, IsGiven)
    IN  [location |-> [latitude |-> nasaResponse.coordinates[2],
                       longitude |-> nasaResponse.coordinates[1]],
         date |-> requestDate,
         dataType |-> dataType,
         hourlyData |-> parameterData,
         dailyAggregates |-> [i \in 1..Len(present) |-> ValueOf(present[i])],
         historicalYearsUsed |-> predictionMetadata.yearsUsed,
         predictionMetadata |->
            IF dataType = "prediction"
            THEN Given([dataPoints |-> predictionMetadata.totalDataPoints,
                        missingDataYears |-> predictionMetadata.missingYears,
                        reliability |->
                            calculateReliability(predictionMetadata.yearsUsed,
                                predictionMetadata.totalDataPoints)])
            ELSE Omitted]

\* convertToCSV: the text as its parts.  The three comment lines carry
\* location, date and dataType; one row per daily aggregate; the header of
\* the hourly table; one row per hour, a cell being the value under the
\* hour-th key of the parameter's series, or 'N/A' (Omitted) without one.
convertToCSV(weatherData) ==
    LET parameters == [j \in 1..Len(weatherData.hourlyData) |->
                          weatherData.hourlyData[j].name]
    IN  [location |-> weatherData.location,
         date |-> weatherData.date,
         dataType |-> weatherData.dataType,
         aggregateRows |-> [i \in 1..Len(weatherData.dailyAggregates) |->
             [param |-> weatherData.dailyAggregates[i].name,
              min |-> weatherData.dailyAggregates[i].min,
              max |-> weatherData.dailyAggregates[i].max,
              mean |-> weatherData.dailyAggregates[i].mean]],
         hourlyHeader |-> <<"Hour">> \o parameters,
         hourlyRows |-> [h \in 1..HoursPerDay |->
             [hour |-> hourString(h - 1),
              cells |-> [j \in 1..Len(parameters) |->
                  IF h <= Len(weatherData.hourlyData[j].values)
                  THEN Given(weatherData.hourlyData[j].values[h].value)
                  ELSE Omitted]]]]

-----------------------------------------------------------------------------
(* ErrorHandler                                                            *)

getHttpStatusCode(errorCode) ==
    CASE errorCode = "VALIDATION_ERROR" -> 400
      [] errorCode = "NOT_FOUND" -> 404
      [] errorCode = "RATE_LIMIT" -> 429
      [] errorCode = "EXTERNAL_API_ERROR" -> 502
      [] errorCode = "API_TIMEOUT" -> 504
      [] errorCode = "NETWORK_ERROR" -> 502
      [] errorCode = "INTERNAL_ERROR" -> 500
      [] OTHER -> 500

\* the `code` of the body built by the create...Error helper of the switch
errorResponseCode(error) ==
    IF error.code \in {"VALIDATION_ERROR", "EXTERNAL_API_ERROR", "API_TIMEOUT",
                       "NETWORK_ERROR", "NOT_FOUND", "RATE_LIMIT"}
    THEN error.code
    ELSE "INTERNAL_ERROR"

NoData == [dataType |-> ""]

\* handleError: the response written for an error that reached the middleware
handleError(error) ==
    LET errorCode == IF error.code # "" THEN error.code ELSE "INTERNAL_ERROR"
    IN  [sent |-> TRUE,
         status |-> getHttpStatusCode(errorCode),
         contentType |-> "application/json",
         success |-> FALSE,
         code |-> errorResponseCode(error),
         data |-> NoData]

createValidationErrorWithDetails(validationErrors) ==
    [name |-> "Error", message |-> "Validation failed", code |-> "VALIDATION_ERROR",
     statusCode |-> 400, upstreamStatus |-> 0, yearErrors |-> <<>>]

\* res.json / res.send of a WeatherResult: status 200
sendSuccess(data) ==
    [sent |-> TRUE, status |-> 200, contentType |-> "application/json",
     success |-> TRUE, code |-> "", data |-> data]

\* res.setHeader('Content-Type', 'text/csv') and res.send of the CSV text:
\* status 200, no envelope
sendCsv(csvData) ==
    [sent |-> TRUE, status |-> 200, contentType |-> "text/csv",
     success |-> TRUE, code |-> "", data |-> csvData]

NoResponse == [sent |-> FALSE, status |-> 0, contentType |-> "",
               success |-> FALSE, code |-> "", data |-> NoData]

-----------------------------------------------------------------------------
(* WeatherController: one pipeline per requested day                       *)

RECURSIVE subDays(_, _)
\* Date.prototype.setDate(getDate() - n) for n >= 0
subDays(dt, n) ==
    IF n = 0 THEN dt
    ELSE IF dt.d > 1 THEN subDays(Day(dt.y, dt.m, dt.d - 1), n - 1)
    ELSE IF dt.m > 1
    THEN subDays(Day(dt.y, dt.m - 1, DaysInMonth(dt.y, dt.m - 1)), n - 1)
    ELSE subDays(Day(dt.y - 1, 12, 31), n - 1)

\* nasaDataCutoff: today at midnight minus delayDays; minus undefined is NaN
nasaDataCutoff(now, delay) ==
    IF IsGiven(delay) THEN subDays(now, ValueOf(delay)) ELSE InvalidDate

\* chooseRoute if the comparison were `requestDate <= nasaDataCutoff`
chooseRoute_inclusive(date, now, delay) ==
    IF \/ DateLess(parseISO(date), nasaDataCutoff(now, delay))
       \/ /\ parseISO(date).valid
          /\ nasaDataCutoff(now, delay).valid
          /\ DayNumber(parseISO(date)) = DayNumber(nasaDataCutoff(now, delay))
    THEN "historical" ELSE "prediction"

\* the branch `requestDate < nasaDataCutoff`
chooseRoute(date, now, delay) ==
    IF DateLess(parseISO(date), nasaDataCutoff(now, delay))
    THEN "historical" ELSE "prediction"

NoError2 == Error("", "", "", 0, 0)

NoResult ==
    [ok |-> FALSE,
     params |-> [start |-> <<>>, end |-> <<>>, parameters |-> <<>>],
     attempts |-> 0, data |-> NoBody, error |-> NoError2]

PendingCall(year, date) ==
    [year |-> year, date |-> date, settled |-> FALSE, result |-> NoResult]

\* format() of an Invalid Date throws
RangeErrorInvalidTime == Error("RangeError", "Invalid time value", "", 0, 0)

\* the synchronous start of one pipeline: the route and the calls it issues
startPipeline(latitude, longitude, date, parameters, historicalYears, now, delay) ==
    LET route == chooseRoute(date, now, delay)
        base == [latitude |-> latitude, longitude |-> longitude, date |-> date,
                 parameters |-> parameters, historicalYears |-> historicalYears,
                 route |-> route, calls |-> <<>>, done |-> FALSE, ok |-> FALSE,
                 predicted |-> FALSE, data |-> NoData, error |-> NoError2]
    IN  IF route = "historical"
        THEN [base EXCEPT !.calls =
                 <<PendingCall(StrToNat(SubSeq(date, 1, 4)), date)>>]
        ELSE IF ~isValid(parseISO(date))
        THEN [base EXCEPT !.done = TRUE, !.error = RangeErrorInvalidTime]
        ELSE LET requests == historicalRequests(date, historicalYears, now)
             IN  [base EXCEPT !.calls =
                     [i \in 1..Len(requests) |->
                         PendingCall(requests[i].year, requests[i].date)]]

ScriptFor(year) ==
    IF year \in DOMAIN upstream.byYear THEN upstream.byYear[year]
    ELSE upstream.default

\* fetchHistoricalData if a failed call fell back to the prediction route
finishHistorical_fallback(pipe) ==
    LET result == pipe.calls[1].result
    IN  IF result.ok
        THEN [pipe EXCEPT !.done = TRUE, !.ok = TRUE,
                 !.data = processWeatherData(responseData(result), pipe.date,
                                             "historical", NoMetadata)]
        ELSE LET requests == historicalRequests(pipe.date, pipe.historicalYears,
                                                today)
             IN  [pipe EXCEPT !.route = "prediction",
                     !.calls = [i \in 1..Len(requests) |->
                         PendingCall(requests[i].year, requests[i].date)]]

\* fetchHistoricalData after its await
finishHistorical(pipe) ==
    LET result == pipe.calls[1].result
    IN  IF result.ok
        THEN [pipe EXCEPT !.done = TRUE, !.ok = TRUE,
                 !.data = processWeatherData(responseData(result), pipe.date,
                                             "historical", NoMetadata)]
        ELSE [pipe EXCEPT !.done = TRUE, !.error = result.error]

\* the historicalData array built from the settled requests
collectHistoricalData(calls) ==
    LET succeeded == SelectSeq(calls, LAMBDA c : c.result.ok)
    IN  [i \in 1..Len(succeeded) |->
            [year |-> succeeded[i].year, ok |-> TRUE,
             data |-> responseData(succeeded[i].result)]]

\* the errors array: one "Year <year>: <message>" entry per failed request
collectErrors(calls) ==
    LET failed == SelectSeq(calls, LAMBDA c : ~c.result.ok)
    IN  [i \in 1..Len(failed) |->
            [year |-> failed[i].year, message |-> failed[i].result.error.message]]

NoHistoricalDataError(errors) ==
    [Error("Error", "No historical data available for prediction",
           "", 0, 0) EXCEPT !.yearErrors = errors]

\* generatePrediction if the fetcher returned an empty array instead of throwing
finishPrediction_noThrow(pipe) ==
    LET historicalData == collectHistoricalData(pipe.calls)
        cp == calculatePrediction(historicalData, pipe.date, pipe.parameters)
    IN  [pipe EXCEPT !.done = TRUE, !.ok = TRUE, !.predicted = TRUE,
            !.data = processWeatherData(cp.prediction, pipe.date,
                                        "prediction", cp.metadata)]

\* generatePrediction if fewer than 70% of the years were a failure
finishPrediction_strict(pipe) ==
    LET historicalData == collectHistoricalData(pipe.calls)
    IN  IF 10 * Len(historicalData) < 7 * Len(pipe.calls)
        THEN [pipe EXCEPT !.done = TRUE,
                 !.error = NoHistoricalDataError(collectErrors(pipe.calls))]
        ELSE LET cp == calculatePrediction(historicalData, pipe.date,
                                           pipe.parameters)
             IN  [pipe EXCEPT !.done = TRUE, !.ok = TRUE, !.predicted = TRUE,
                     !.data = processWeatherData(cp.prediction, pipe.date,
                                                 "prediction", cp.metadata)]

\* generatePrediction after Promise.all has resolved
finishPrediction(pipe) ==
    LET historicalData == collectHistoricalData(pipe.calls)
    IN  IF Len(historicalData) = 0
        THEN [pipe EXCEPT !.done = TRUE,
                 !.error = NoHistoricalDataError(collectErrors(pipe.calls))]
        ELSE LET cp == calculatePrediction(historicalData, pipe.date,
                                           pipe.parameters)
             IN  [pipe EXCEPT !.done = TRUE, !.ok = TRUE, !.predicted = TRUE,
                     !.data = processWeatherData(cp.prediction, pipe.date,
                                                 "prediction", cp.metadata)]

\* what getWeatherData answers once its pipeline has ended
getResponse(pipe, format) ==
    IF ~pipe.ok THEN handleError(pipe.error)
    ELSE IF format = "csv" THEN sendCsv(convertToCSV(pipe.data))
    ELSE sendSuccess(pipe.data)

-----------------------------------------------------------------------------
(* Actions                                                                 *)

\* GET /api/weather/data with a query that fails validation
GetInvalid ==
    /\ kind = "get" /\ pc = "start"
    /\ LET validation == validateWeatherRequest(input, today)
       IN  /\ ~validation.isValid
           /\ response' = handleError(
                  createValidationErrorWithDetails(validation.errors))
    /\ pc' = "done"
    /\ sendCalls' = sendCalls + 1
    /\ UNCHANGED <<today, delayDays, upstream, kind, input, pipes, aggregated>>

\* GET /api/weather/data without `parameters`: undefined.split throws
GetNoParameters ==
    /\ kind = "get" /\ pc = "start"
    /\ LET validation == validateWeatherRequest(input, today)
       IN  /\ validation.isValid
           /\ ~IsGiven(ValueOf(validation.data).parameters)
    /\ response' = handleError(
           Error("TypeError", "Cannot read properties of undefined (reading 'split')",
                 "", 0, 0))
    /\ pc' = "done"
    /\ sendCalls' = sendCalls + 1
    /\ UNCHANGED <<today, delayDays, upstream, kind, input, pipes, aggregated>>

\* GET /api/weather/data up to its first await
GetStart ==
    /\ kind = "get" /\ pc = "start"
    /\ LET validation == validateWeatherRequest(input, today)
       IN  /\ validation.isValid
           /\ IsGiven(ValueOf(validation.data).parameters)
           /\ LET data == ValueOf(validation.data)
                  parameterList == split(ValueOf(data.parameters))
              IN  pipes' = <<startPipeline(data.latitude, data.longitude,
                                 data.date, parameterList, data.historicalYears,
                                 today, delayDays)>>
    /\ pc' = "waiting"
    /\ UNCHANGED <<today, delayDays, upstream, kind, input, response, aggregated, sendCalls>>

\* A handler that ends after the request timeout has answered (pc =
\* "timedout") still sends: with a result it calls res.json or res.send, which
\* throws ERR_HTTP_HEADERS_SENT on the response already sent, and the thrown
\* error goes through asyncHandler to handleError, whose res.json throws
\* again; with an error of its own it reaches handleError once.  The response
\* the client got stays the one of the timeout; the handler ends at "late".
lateSendCalls(ok) == IF ok THEN 2 ELSE 1

\* FetchSettle if the service kept the coordinates and parameters of a call
\* in a field of its own that the first request in flight had set
FetchSettle_shared(p, c) ==
    /\ pc \in {"waiting", "timedout"}
    /\ ~pipes[p].done
    /\ ~pipes[p].calls[c].settled
    /\ LET pipe == pipes[p]
           call == pipe.calls[c]
       IN  pipes' = [pipes EXCEPT ![p].calls[c] =
               [call EXCEPT !.settled = TRUE,
                   !.result = fetchWeatherData(pipes[1].latitude,
                        pipes[1].longitude, call.date, call.date,
                        pipes[1].parameters, ScriptFor(call.year))]]
    /\ UNCHANGED <<today, delayDays, upstream, kind, input, pc, response, aggregated, sendCalls>>

\* one fetchWeatherData promise settles; the calls of a request go on after
\* the request timeout has answered it
FetchSettle(p, c) ==
    /\ pc \in {"waiting", "timedout"}
    /\ ~pipes[p].done
    /\ ~pipes[p].calls[c].settled
    /\ LET pipe == pipes[p]
           call == pipe.calls[c]
       IN  pipes' = [pipes EXCEPT ![p].calls[c] =
               [call EXCEPT !.settled = TRUE,
                   !.result = fetchWeatherData(pipe.latitude, pipe.longitude,
                        call.date, call.date, pipe.parameters,
                        ScriptFor(call.year))]]
    /\ UNCHANGED <<today, delayDays, upstream, kind, input, pc, response, aggregated, sendCalls>>

\* the historical pipeline resumes after its call
CompleteHistorical(p) ==
    /\ pc \in {"waiting", "timedout"}
    /\ ~pipes[p].done
    /\ pipes[p].route = "historical"
    /\ pipes[p].calls[1].settled
    /\ pipes' = [pipes EXCEPT ![p] = finishHistorical(pipes[p])]
    /\ IF kind = "get"
       THEN IF pc = "waiting"
            THEN /\ response' = getResponse(pipes'[p],
                         ValueOf(validateWeatherRequest(input, today).data).format)
                 /\ pc' = "done"
                 /\ sendCalls' = sendCalls + 1
            ELSE /\ response' = response
                 /\ pc' = "late"
                 /\ sendCalls' = sendCalls + lateSendCalls(pipes'[p].ok)
       ELSE UNCHANGED <<response, pc, sendCalls>>
    /\ UNCHANGED <<today, delayDays, upstream, kind, input, aggregated>>

\* CompletePrediction if the join were a race: the pipeline resumes as soon
\* as one of its calls has settled
CompletePrediction_race(p) ==
    /\ pc \in {"waiting", "timedout"}
    /\ ~pipes[p].done
    /\ pipes[p].route = "prediction"
    /\ \E c \in 1..Len(pipes[p].calls) : pipes[p].calls[c].settled
    /\ pipes' = [pipes EXCEPT ![p] = finishPrediction(pipes[p])]
    /\ IF kind = "get"
       THEN IF pc = "waiting"
            THEN /\ response' = getResponse(pipes'[p],
                         ValueOf(validateWeatherRequest(input, today).data).format)
                 /\ pc' = "done"
                 /\ sendCalls' = sendCalls + 1
            ELSE /\ response' = response
                 /\ pc' = "late"
                 /\ sendCalls' = sendCalls + lateSendCalls(pipes'[p].ok)
       ELSE UNCHANGED <<response, pc, sendCalls>>
    /\ UNCHANGED <<today, delayDays, upstream, kind, input, aggregated>>

\* the prediction pipeline resumes after Promise.all
CompletePrediction(p) ==
    /\ pc \in {"waiting", "timedout"}
    /\ ~pipes[p].done
    /\ pipes[p].route = "prediction"
    /\ \A c \in 1..Len(pipes[p].calls) : pipes[p].calls[c].settled
    /\ pipes' = [pipes EXCEPT ![p] = finishPrediction(pipes[p])]
    /\ IF kind = "get"
       THEN IF pc = "waiting"
            THEN /\ response' = getResponse(pipes'[p],
                         ValueOf(validateWeatherRequest(input, today).data).format)
                 /\ pc' = "done"
                 /\ sendCalls' = sendCalls + 1
            ELSE /\ response' = response
                 /\ pc' = "late"
                 /\ sendCalls' = sendCalls + lateSendCalls(pipes'[p].ok)
       ELSE UNCHANGED <<response, pc, sendCalls>>
    /\ UNCHANGED <<today, delayDays, upstream, kind, input, aggregated>>

\* POST /api/weather/bulk with a body that fails validation
BulkInvalid ==
    /\ kind = "bulk" /\ pc = "start"
    /\ LET validation == validateBulkRequest(input)
       IN  /\ ~validation.isValid
           /\ response' = handleError(
                  createValidationErrorWithDetails(validation.errors))
    /\ pc' = "done"
    /\ sendCalls' = sendCalls + 1
    /\ UNCHANGED <<today, delayDays, upstream, kind, input, pipes, aggregated>>

\* POST /api/weather/bulk: requests.map starts every item up to its first await
BulkStart ==
    /\ kind = "bulk" /\ pc = "start"
    /\ LET validation == validateBulkRequest(input)
       IN  /\ validation.isValid
           /\ LET data == ValueOf(validation.data)
              IN  pipes' = [i \in 1..Len(data.requests) |->
                      LET request == data.requests[i]
                          parameterList ==
                              IF IsGiven(request.parameters)
                                 /\ ValueOf(request.parameters) # <<>>
                              THEN split(ValueOf(request.parameters))
                              ELSE defaultParameters
                      IN  startPipeline(request.latitude, request.longitude,
                              request.date, parameterList, data.historicalYears,
                              today, delayDays)]
    /\ pc' = "waiting"
    /\ UNCHANGED <<today, delayDays, upstream, kind, input, response, aggregated, sendCalls>>

\* bulkData if one failed item made every item of the request fail
bulkData_allOrNothing(items) ==
    LET indexed == [i \in 1..Len(items) |-> [index |-> i - 1, pipe |-> items[i]]]
        anyFailed == \E i \in 1..Len(items) : ~items[i].ok
        successful == IF anyFailed THEN <<>>
                      ELSE SelectSeq(indexed, LAMBDA r : r.pipe.ok)
        failed == IF anyFailed THEN indexed
                  ELSE SelectSeq(indexed, LAMBDA r : ~r.pipe.ok)
    IN  [dataType |-> "bulk",
         totalRequests |-> Len(items),
         successfulRequests |-> Len(successful),
         failedRequests |-> Len(failed),
         results |-> [i \in 1..Len(successful) |-> successful[i].pipe.data],
         errors |-> [i \in 1..Len(failed) |->
             [index |-> failed[i].index,
              code |-> IF failed[i].pipe.error.code # ""
                       THEN failed[i].pipe.error.code ELSE "PROCESSING_ERROR",
              message |-> failed[i].pipe.error.message]]]

\* the per-item result objects, split into results and errors
bulkData(items) ==
    LET indexed == [i \in 1..Len(items) |-> [index |-> i - 1, pipe |-> items[i]]]
        successful == SelectSeq(indexed, LAMBDA r : r.pipe.ok)
        failed == SelectSeq(indexed, LAMBDA r : ~r.pipe.ok)
    IN  [dataType |-> "bulk",
         totalRequests |-> Len(items),
         successfulRequests |-> Len(successful),
         failedRequests |-> Len(failed),
         results |-> [i \in 1..Len(successful) |-> successful[i].pipe.data],
         errors |-> [i \in 1..Len(failed) |->
             [index |-> failed[i].index,
              code |-> IF failed[i].pipe.error.code # ""
                       THEN failed[i].pipe.error.code ELSE "PROCESSING_ERROR",
              message |-> failed[i].pipe.error.message]]]

\* POST /api/weather/bulk after Promise.all over the items
BulkRespond ==
    /\ kind = "bulk" /\ pc \in {"waiting", "timedout"}
    /\ \A p \in 1..Len(pipes) : pipes[p].done
    /\ IF pc = "waiting"
       THEN /\ response' = sendSuccess(bulkData(pipes))
            /\ pc' = "done"
            /\ sendCalls' = sendCalls + 1
       ELSE /\ response' = response
            /\ pc' = "late"
            /\ sendCalls' = sendCalls + lateSendCalls(TRUE)
    /\ UNCHANGED <<today, delayDays, upstream, kind, input, pipes, aggregated>>

\* the error the request timeout middleware hands to the error handler
RequestTimeoutError == Error("Error", "Request timeout", "REQUEST_TIMEOUT", 408, 0)

\* the res.setTimeout callback fires while the handler awaits its upstream
\* calls: next(error) takes the error to handleError, which answers.  The
\* handler is not told and goes on.  A response that has been sent is
\* detached from its socket, whose timeout no longer reaches the callback.
RequestTimeout ==
    /\ kind \in {"get", "bulk"}
    /\ pc = "waiting"
    /\ response' = handleError(RequestTimeoutError)
    /\ pc' = "timedout"
    /\ sendCalls' = sendCalls + 1
    /\ UNCHANGED <<today, delayDays, upstream, kind, input, pipes, aggregated>>

\* calculatePrediction followed by processWeatherData, called directly
Aggregate ==
    /\ kind = "aggregate" /\ pc = "start"
    /\ LET cp == calculatePrediction(input.historicalDataArray, input.targetDate,
                                     input.parameters)
       IN  aggregated' =
               [called |-> TRUE,
                prediction |-> cp.prediction,
                metadata |-> cp.metadata,
                result |-> processWeatherData(cp.prediction, input.targetDate,
                                              "prediction", cp.metadata)]
    /\ pc' = "done"
    /\ UNCHANGED <<today, delayDays, upstream, kind, input, pipes, response, sendCalls>>

\* calculateReliability, called directly
Reliability ==
    /\ kind = "reliability" /\ pc = "start"
    /\ aggregated' =
           [called |-> TRUE,
            reliability |-> calculateReliability(input.yearsUsed,
                                                 input.totalDataPoints)]
    /\ pc' = "done"
    /\ UNCHANGED <<today, delayDays, upstream, kind, input, pipes, response, sendCalls>>

\* Two GET requests served by the same process.  input is the pair of
\* queries; pipes[r] is the pipeline of request r, aggregated.pcs[r] the
\* position of its handler and aggregated.responses[r] what it was answered;
\* aggregated.overlapped tells that one request arrived while the other was
\* waiting for the provider.  The handlers share the controller and its two
\* services, whose fields are assigned in the constructors only.
IdlePipe ==
    [latitude |-> 0, longitude |-> 0, date |-> <<>>, parameters |-> <<>>,
     historicalYears |-> 0, route |-> "", calls |-> <<>>, done |-> TRUE,
     ok |-> FALSE, predicted |-> FALSE, data |-> NoData, error |-> NoError2]

\* getWeatherData of request r up to its first await, or to its answer
PairArrive(r) ==
    /\ kind = "pair" /\ aggregated.pcs[r] = "start"
    /\ LET validation == validateWeatherRequest(input[r], today)
           overlapped == aggregated.overlapped
                             \/ \E q \in 1..Len(input) : aggregated.pcs[q] = "waiting"
       IN  IF ~validation.isValid
           THEN /\ aggregated' = [aggregated EXCEPT
                       !.pcs[r] = "done",
                       !.responses[r] = handleError(
                           createValidationErrorWithDetails(validation.errors))]
                /\ UNCHANGED pipes
           ELSE IF ~IsGiven(ValueOf(validation.data).parameters)
           THEN /\ aggregated' = [aggregated EXCEPT
                       !.pcs[r] = "done",
                       !.responses[r] = handleError(
                           Error("TypeError",
                                 "Cannot read properties of undefined (reading 'split')",
                                 "", 0, 0))]
                /\ UNCHANGED pipes
           ELSE LET data == ValueOf(validation.data)
                IN  /\ pipes' = [pipes EXCEPT ![r] =
                           startPipeline(data.latitude, data.longitude,
                               data.date, split(ValueOf(data.parameters)),
                               data.historicalYears, today, delayDays)]
                    /\ aggregated' = [aggregated EXCEPT
                           !.pcs[r] = "waiting", !.overlapped = overlapped]
    /\ UNCHANGED <<today, delayDays, upstream, kind, input, pc, response, sendCalls>>

\* getWeatherData of request r after its await: res.json or res.send
PairRespond(r) ==
    /\ kind = "pair" /\ aggregated.pcs[r] = "waiting"
    /\ pipes[r].done
    /\ aggregated' = [aggregated EXCEPT
           !.pcs[r] = "done",
           !.responses[r] = getResponse(pipes[r],
               ValueOf(validateWeatherRequest(input[r], today).data).format)]
    /\ UNCHANGED <<today, delayDays, upstream, kind, input, pc, pipes, response, sendCalls>>

\* makeRequest, one step of its loop at a time.  `aggregated` holds the
\* locals of the running call: the loop counter, lastError, and the trace of
\* what the call did so far (an axios.get with its attempt number, a delay
\* with its milliseconds).  The script of the provider is input.script.
RequestState(attempt, lastError, trace, thrown) ==
    [called |-> TRUE, attempt |-> attempt, lastError |-> lastError,
     trace |-> trace, thrown |-> thrown]

\* one pass of the loop body up to the next await: axios.get settles with
\* the outcome the provider scripted for this attempt
RequestAttempt ==
    /\ kind = "request" /\ pc = "attempt"
    /\ LET attempt == aggregated.attempt
           outcome == input.script[attempt]
           trace == Append(aggregated.trace, [e |-> "get", n |-> attempt])
       IN  IF outcome.t = "ok"
           THEN /\ aggregated' = RequestState(attempt, aggregated.lastError,
                                              trace, Omitted)
                /\ pc' = "returned"
           ELSE IF outcome.t = "status"
           THEN IF attempt < retryAttempts
                THEN /\ aggregated' = RequestState(attempt + 1,
                                          aggregated.lastError, trace, Omitted)
                     /\ pc' = "attempt"
                ELSE /\ aggregated' = RequestState(attempt + 1,
                                          aggregated.lastError, trace,
                                          aggregated.lastError)
                     /\ pc' = "thrown"
           ELSE IF attempt < retryAttempts
                THEN /\ aggregated' = RequestState(attempt, Given(outcome),
                                                   trace, Omitted)
                     /\ pc' = "delay"
                ELSE /\ aggregated' = RequestState(attempt + 1, Given(outcome),
                                                   trace, Given(outcome))
                     /\ pc' = "thrown"
    /\ UNCHANGED <<today, delayDays, upstream, kind, input, pipes, response, sendCalls>>

\* await this.delay(this.retryDelay * attempt) is over
RequestDelay ==
    /\ kind = "request" /\ pc = "delay"
    /\ aggregated' =
           RequestState(aggregated.attempt + 1, aggregated.lastError,
               Append(aggregated.trace,
                      [e |-> "delay", n |-> retryDelay * aggregated.attempt]),
               Omitted)
    /\ pc' = "attempt"
    /\ UNCHANGED <<today, delayDays, upstream, kind, input, pipes, response, sendCalls>>

-----------------------------------------------------------------------------
(* Inputs                                                                  *)

\* "Y-M-D" with the month and day written as given
DateString(year, month, day) == year \o <<"-">> \o month \o <<"-">> \o day

\* a calendar day written with or without zero padding
Written(y, m, d, padded) ==
    IF padded
    THEN DateString(NatToStr(y), padStart(NatToStr(m), 2, "0"),
                    padStart(NatToStr(d), 2, "0"))
    ELSE DateString(NatToStr(y), NatToStr(m), NatToStr(d))

Todays == {Day(2025, 10, 5), Day(2025, 1, 2)}

DelayDaysValues == {nasaDataDelayDays, Given(documentedDelayDays)}

\* days around the cutoff of each value of today, a day of the test suite,
\* and days outside the accepted range
CalendarDays ==
    {<<2025, 9, 30>>, <<2025, 10, 1>>, <<2025, 10, 3>>, <<2025, 10, 5>>,
     <<2025, 10, 15>>, <<2024, 12, 28>>, <<2024, 12, 29>>, <<2023, 1, 1>>,
     <<2025, 1, 1>>,
     <<1980, 12, 31>>, <<2036, 1, 1>>}

MalformedDates ==
    {<<"2", "0", "2", "5", "/", "1", "0", "/", "0", "1">>,
     <<"2", "5", "-", "1", "0", "-", "0", "1">>,
     <<"2", "0", "2", "5", "-", "1", "0", "-", "0", "0", "1">>,
     <<"2", "0", "2", "5", "-", "1", "0", "-">>,
     <<"2", "0", "2", "5", "-", "0", "2", "-", "3", "0">>,
     <<"2", "0", "2", "5", "-", "1", "3", "-", "0", "1">>}

DateInputs ==
    {Written(c[1], c[2], c[3], padded) : c \in CalendarDays, padded \in BOOLEAN}
    \cup MalformedDates

BaseQuery ==
    [latitude |-> 41, longitude |-> 29,
     date |-> Written(2025, 10, 15, TRUE),
     parameters |-> Given(<<"T2M", "RH2M">>),
     historicalYears |-> Given(minHistoricalYears),
     format |-> Given("json")]

\* queries that differ from the base query in one key
GetQueries ==
    {[BaseQuery EXCEPT !.date = d] : d \in DateInputs}
    \cup {[BaseQuery EXCEPT !.date = d, !.parameters = Given(<<"T2M">>)] :
             d \in {Written(2025, 9, 30, TRUE), Written(2025, 10, 1, FALSE)}}
    \cup {[BaseQuery EXCEPT !.latitude = x] :
             x \in {minLatitude - 1, minLatitude, maxLatitude, maxLatitude + 1}}
    \cup {[BaseQuery EXCEPT !.longitude = x] :
             x \in {minLongitude - 1, minLongitude, maxLongitude, maxLongitude + 1}}
    \cup {[BaseQuery EXCEPT !.historicalYears = Given(n)] :
             n \in {minHistoricalYears - 1, maxHistoricalYears + 1}}
    \cup {[BaseQuery EXCEPT !.parameters = x] :
             x \in {Omitted, Given(<<"T2M", "T2M">>), Given(<<"BOGUS">>)}}
    \cup {[BaseQuery EXCEPT !.format = Given("xml")]}
    \cup {[BaseQuery EXCEPT !.format = Given("csv"), !.date = d] :
             d \in {Written(2025, 9, 30, TRUE), Written(2025, 10, 15, TRUE)}}

TimedOut == TransportError("ECONNABORTED")

\* what the provider does on the attempts of one call
Always(outcome) == [attempt \in 1..retryAttempts |-> outcome]

Scripts ==
    {Always(Ok("A")),
     [Always(Ok("B")) EXCEPT ![1] = TimedOut, ![2] = HttpError(503)],
     [Always(Ok("A")) EXCEPT ![1] = HttpError(400)],
     Always(TimedOut),
     Always(HttpError(429)),
     Always(HttpError(500)),
     Always(TransportError("ENOTFOUND")),
     Always(Non200(204))}

\* the provider behaves the same way for every year
UniformUpstreams ==
    {[default |-> script, byYear |-> <<>>] : script \in Scripts}

\* the provider behaves differently from year to year
FanOutYears == {2025 - i : i \in 1..minHistoricalYears}

FanOutScripts == {Always(Ok("A")), Always(TimedOut), Always(HttpError(429))}

FanOutUpstreams ==
    {[default |-> Always(HttpError(500)), byYear |-> f] :
         f \in [FanOutYears -> FanOutScripts]}

NotCalled == [called |-> FALSE]

InitGet ==
    /\ kind = "get"
    /\ pc = "start"
    /\ pipes = <<>>
    /\ response = NoResponse
    /\ aggregated = NotCalled
    /\ sendCalls = 0
    /\ \/ /\ today \in Todays
          /\ delayDays \in DelayDaysValues
          /\ input \in GetQueries
          /\ upstream \in UniformUpstreams
       \/ /\ today = Day(2025, 10, 5)
          /\ delayDays = Given(documentedDelayDays)
          /\ input = BaseQuery
          /\ upstream \in FanOutUpstreams

-----------------------------------------------------------------------------
(* POST /api/weather/bulk                                                  *)

BulkItem(date) ==
    [latitude |-> 41, longitude |-> 29, date |-> date,
     parameters |-> Given(<<"T2M">>)]

BulkDates ==
    {Written(c[1], c[2], c[3], TRUE) : c \in CalendarDays}
    \cup {Written(2025, 10, 1, FALSE), Written(2025, 2, 30, TRUE)}

OldDay == BulkItem(Written(2025, 9, 30, TRUE))
LagDay == BulkItem(Written(2025, 10, 1, TRUE))
NoSuchDay == [BulkItem(Written(2025, 2, 30, TRUE)) EXCEPT !.parameters = Omitted]

BulkLists ==
    {<<BulkItem(d)>> : d \in BulkDates}
    \cup {<<OldDay, LagDay>>, <<LagDay, OldDay>>, <<NoSuchDay, OldDay>>,
          <<[OldDay EXCEPT !.latitude = maxLatitude + 1]>>,
          <<OldDay, [LagDay EXCEPT !.longitude = minLongitude - 1]>>,
          <<>>,
          [i \in 1..(maxBulkRequests + 1) |-> OldDay]}

BulkBodies ==
    {[requests |-> list, historicalYears |-> Given(minHistoricalYears)] :
         list \in BulkLists}
    \cup {[requests |-> <<OldDay>>, historicalYears |-> Given(n)] :
             n \in {minHistoricalYears - 1, maxHistoricalYears + 1}}

BulkUpstreams ==
    {[default |-> script, byYear |-> <<>>] :
         script \in {Always(Ok("A")), Always(TimedOut)}}
    \cup {[default |-> Always(Ok("B")),
           byYear |-> (2024 :> Always(TimedOut) @@ 2025 :> Always(HttpError(429)))]}

InitBulk ==
    /\ kind = "bulk"
    /\ pc = "start"
    /\ pipes = <<>>
    /\ response = NoResponse
    /\ aggregated = NotCalled
    /\ sendCalls = 0
    /\ today \in Todays
    /\ delayDays \in DelayDaysValues
    /\ input \in BulkBodies
    /\ upstream \in BulkUpstreams

-----------------------------------------------------------------------------
(* The server: one request, to either endpoint                             *)

Init == InitGet \/ InitBulk

Next ==
    \/ GetInvalid
    \/ GetNoParameters
    \/ GetStart
    \/ BulkInvalid
    \/ BulkStart
    \/ \E p \in 1..Len(pipes) : \E c \in 1..Len(pipes[p].calls) : FetchSettle(p, c)
    \/ \E p \in 1..Len(pipes) : CompleteHistorical(p)
    \/ \E p \in 1..Len(pipes) : CompletePrediction(p)
    \/ BulkRespond
    \/ RequestTimeout

Spec == Init /\ [][Next]_vars

-----------------------------------------------------------------------------
(* Direct calls of the aggregation functions                               *)

\* the longest historicalDataArray handed to calculatePrediction
MaxYears == 3

AggregateTarget == Written(2030, 6, 15, TRUE)

AggregateParameters == {<<"T2M">>, <<"T2M", "RH2M">>}

\* the entry of one year: a failed fetch, or the body of a successful one
YearEntry(year, shape, parameters) ==
    IF shape = ""
    THEN [year |-> year, ok |-> FALSE,
          data |-> [coordinates |-> <<>>, parameter |-> <<>>]]
    ELSE [year |-> year, ok |-> TRUE,
          data |-> MkBody(shape, 41, 29,
                       formatDateForApi(Written(year, 6, 15, TRUE)), parameters)]

AggregateInputs ==
    {[historicalDataArray |->
          [i \in 1..n |-> YearEntry(2030 - i, shapes[i], parameters)],
      targetDate |-> AggregateTarget,
      parameters |-> parameters] :
        n \in 1..MaxYears,
        shapes \in [1..MaxYears -> Shapes \cup {""}],
        parameters \in AggregateParameters}

InitAggregate ==
    /\ kind = "aggregate"
    /\ pc = "start"
    /\ pipes = <<>>
    /\ response = NoResponse
    /\ aggregated = NotCalled
    /\ sendCalls = 0
    /\ today = Day(2030, 1, 1)
    /\ delayDays = nasaDataDelayDays
    /\ upstream = [default |-> Always(Ok("A")), byYear |-> <<>>]
    /\ input \in AggregateInputs

NextAggregate == Aggregate

SpecAggregate == InitAggregate /\ [][NextAggregate]_vars

\* the largest yearsUsed handed to calculateReliability
MaxYearsUsed == 31

ReliabilityInputs ==
    {[yearsUsed |-> y, totalDataPoints |-> y * HoursPerDay * n] :
         y \in 0..MaxYearsUsed, n \in 0..2}

InitReliability ==
    /\ kind = "reliability"
    /\ pc = "start"
    /\ pipes = <<>>
    /\ response = NoResponse
    /\ aggregated = NotCalled
    /\ sendCalls = 0
    /\ today = Day(2030, 1, 1)
    /\ delayDays = nasaDataDelayDays
    /\ upstream = [default |-> Always(Ok("A")), byYear |-> <<>>]
    /\ input \in ReliabilityInputs

NextReliability == Reliability

SpecReliability == InitReliability /\ [][NextReliability]_vars

\* what the provider can do on one attempt of a call followed step by step
RequestOutcomes ==
    {Ok("A"), Non200(204), HttpError(503), HttpError(404), TimedOut}

RequestScripts == [1..retryAttempts -> RequestOutcomes]

InitMakeRequest ==
    /\ kind = "request"
    /\ pc = "attempt"
    /\ pipes = <<>>
    /\ response = NoResponse
    /\ aggregated = RequestState(1, Omitted, <<>>, Omitted)
    /\ sendCalls = 0
    /\ today = Day(2030, 1, 1)
    /\ delayDays = nasaDataDelayDays
    /\ upstream = [default |-> Always(Ok("A")), byYear |-> <<>>]
    /\ input \in {[script |-> script] : script \in RequestScripts}

NextMakeRequest == RequestAttempt \/ RequestDelay

SpecMakeRequest == InitMakeRequest /\ [][NextMakeRequest]_vars

\* the queries of two requests in flight together
ConcurrentQueries ==
    {BaseQuery,
     [BaseQuery EXCEPT !.latitude = 10, !.parameters = Given(<<"T2M">>),
                       !.date = Written(2025, 10, 3, FALSE)],
     [BaseQuery EXCEPT !.longitude = 30, !.date = Written(2025, 9, 30, TRUE)],
     [BaseQuery EXCEPT !.latitude = maxLatitude + 1]}

\* the provider answers every year, fails every year, or fails two of them
ConcurrentUpstreams ==
    {[default |-> Always(Ok("A")), byYear |-> <<>>],
     [default |-> Always(TimedOut), byYear |-> <<>>],
     [default |-> Always(Ok("B")),
      byYear |-> [y \in {2024, 2022} |->
                     IF y = 2024 THEN Always(TimedOut) ELSE Always(HttpError(429))]]}

InitConcurrent ==
    /\ kind = "pair"
    /\ pc = "waiting"
    /\ pipes = <<IdlePipe, IdlePipe>>
    /\ response = NoResponse
    /\ aggregated = [called |-> TRUE, pcs |-> <<"start", "start">>,
                     responses |-> <<NoResponse, NoResponse>>,
                     overlapped |-> FALSE]
    /\ sendCalls = 0
    /\ today = Day(2025, 10, 5)
    /\ delayDays = Given(documentedDelayDays)
    /\ upstream \in ConcurrentUpstreams
    /\ input \in {<<a, b>> : a \in ConcurrentQueries, b \in ConcurrentQueries}

NextConcurrent ==
    \/ \E r \in 1..2 : PairArrive(r)
    \/ \E p \in 1..Len(pipes) : \E c \in 1..Len(pipes[p].calls) : FetchSettle(p, c)
    \/ \E p \in 1..Len(pipes) : CompleteHistorical(p)
    \/ \E p \in 1..Len(pipes) : CompletePrediction(p)
    \/ \E r \in 1..2 : PairRespond(r)

SpecConcurrent == InitConcurrent /\ [][NextConcurrent]_vars

-----------------------------------------------------------------------------
(* Properties of calculatePrediction (SpecAggregate)                       *)

Abs(x) == IF x < 0 THEN 0 - x ELSE x

\* the hour an hour key ends in
HourOfKey(key) == StrToNat(SubSeq(key, Len(key) - 1, Len(key)))

\* the entries a successful year dataset `item` holds for a parameter and hour
EntriesOf(item, param, hour) ==
    {<<j, e>> \in (1..Len(item.data.parameter)) \X (1..HoursPerDay) :
        /\ item.data.parameter[j].name = param
        /\ e <= Len(item.data.parameter[j].values)
        /\ HourOfKey(item.data.parameter[j].values[e].key) = hour}

EntryValue(item, je) == item.data.parameter[je[1]].values[je[2]].value

\* the years (positions of the array) that hold a non-fill value
ObservedYears(array, param, hour) ==
    {i \in 1..Len(array) :
        /\ array[i].ok
        /\ \E je \in EntriesOf(array[i], param, hour) :
               EntryValue(array[i], je) # fillValue}

\* the years that hold the fill value
FillYears(array, param, hour) ==
    {i \in 1..Len(array) :
        /\ array[i].ok
        /\ \E je \in EntriesOf(array[i], param, hour) :
               EntryValue(array[i], je) = fillValue}

ObservedValue(array, i, param, hour) ==
    EntryValue(array[i], CHOOSE je \in EntriesOf(array[i], param, hour) : TRUE)

RECURSIVE SumObserved(_, _, _, _)
SumObserved(array, years, param, hour) ==
    IF years = {} THEN 0
    ELSE LET i == CHOOSE x \in years : TRUE
         IN  ObservedValue(array, i, param, hour)
             + SumObserved(array, years \ {i}, param, hour)

\* the entries of a predicted series under the key of the target day and hour
PredictedEntries(prediction, targetDate, param, hour) ==
    {<<j, e>> \in (1..Len(prediction.parameter)) \X (1..HoursPerDay) :
        /\ prediction.parameter[j].name = param
        /\ e <= Len(prediction.parameter[j].values)
        /\ prediction.parameter[j].values[e].key
               = removeDashes(targetDate) \o padStart(NatToStr(hour), 2, "0")}

AggregateDone == kind = "aggregate" /\ pc = "done"

\* C1: wherever a successful year holds a non-fill value for a parameter and
\* hour, the predicted value is the mean of exactly the non-fill values of
\* that hour, to the nearest hundredth; fill values are neither summed nor
\* counted.
C1_MeanOfNonFillValues ==
    AggregateDone =>
        \A n \in 1..Len(input.parameters) : \A hour \in Hours :
            LET param == input.parameters[n]
                years == ObservedYears(input.historicalDataArray, param, hour)
                total == SumObserved(input.historicalDataArray, years, param, hour)
                entries == PredictedEntries(aggregated.prediction,
                                            input.targetDate, param, hour)
            IN  years # {} =>
                    /\ Cardinality(entries) = 1
                    /\ \A je \in entries :
                           LET predicted ==
                                   aggregated.prediction.parameter[je[1]]
                                       .values[je[2]].value
                           IN  2 * Abs(Cardinality(years) * predicted - total)
                                   <= Cardinality(years)

\* an hour for which one year holds fill and another an observed value
C1_Witness ==
    /\ AggregateDone
    /\ \E n \in 1..Len(input.parameters) : \E hour \in Hours :
           /\ ObservedYears(input.historicalDataArray,
                            input.parameters[n], hour) # {}
           /\ FillYears(input.historicalDataArray,
                        input.parameters[n], hour) # {}

\* C2: where no successful year holds a non-fill value for a parameter and
\* hour, the predicted series has the key of that hour and its value is the
\* fill sentinel.
C2_FillWhenNothingObserved ==
    AggregateDone =>
        \A n \in 1..Len(input.parameters) : \A hour \in Hours :
            LET param == input.parameters[n]
                entries == PredictedEntries(aggregated.prediction,
                                            input.targetDate, param, hour)
            IN  ObservedYears(input.historicalDataArray, param, hour) = {} =>
                    /\ Cardinality(entries) = 1
                    /\ \A je \in entries :
                           aggregated.prediction.parameter[je[1]]
                               .values[je[2]].value = -99900

\* an hour that every successful year has as fill, and a parameter that no
\* successful year has at all
C2_Witness ==
    /\ AggregateDone
    /\ \E i \in 1..Len(input.historicalDataArray) : input.historicalDataArray[i].ok
    /\ \E n \in 1..Len(input.parameters) : \E hour \in Hours :
           /\ ObservedYears(input.historicalDataArray,
                            input.parameters[n], hour) = {}
           /\ FillYears(input.historicalDataArray,
                        input.parameters[n], hour) # {}
    /\ \E n \in 1..Len(input.parameters) :
           \A i \in 1..Len(input.historicalDataArray) : \A hour \in Hours :
               EntriesOf(input.historicalDataArray[i],
                         input.parameters[n], hour) = {}

-----------------------------------------------------------------------------
(* Properties of calculateReliability (SpecReliability)                    *)

ReliabilityDone == kind = "reliability" /\ pc = "done"

\* the label the thresholds on yearsUsed give
LabelOfYears(yearsUsed) ==
    CASE yearsUsed >= 15 -> "high"
      [] yearsUsed \in 10..14 -> "medium"
      [] yearsUsed \in 5..9 -> "low"
      [] OTHER -> "very_low"

-----------------------------------------------------------------------------
(* Properties of the request pipelines (Spec)                              *)

\* the calls of a pipeline that failed, and those that succeeded
FailedCalls(pipe) ==
    {c \in 1..Len(pipe.calls) : ~pipe.calls[c].result.ok}

SucceededCalls(pipe) ==
    {c \in 1..Len(pipe.calls) : pipe.calls[c].result.ok}

\* a prediction pipeline that has ended after all of its calls settled
PredictionEnded(pipe) ==
    /\ pipe.route = "prediction"
    /\ pipe.done
    /\ Len(pipe.calls) > 0

GetDone == kind = "get" /\ pc = "done" /\ Len(pipes) = 1

\* C3 as stated: a prediction made while some year fetches failed reports
\* exactly the failed years in predictionMetadata.missingDataYears.
C3_MissingYearsListed ==
    \A p \in 1..Len(pipes) :
        (PredictionEnded(pipes[p]) /\ pipes[p].ok
            /\ FailedCalls(pipes[p]) # {}) =>
            LET missing == ValueOf(pipes[p].data.predictionMetadata).missingDataYears
            IN  {missing[i] : i \in 1..Len(missing)}
                    = {pipes[p].calls[c].year : c \in FailedCalls(pipes[p])}

\* C4: with a delay of four days a pipeline takes the historical route
\* exactly when its day is strictly earlier than today minus four days.
C4_HistoricalIffBeforeCutoff ==
    delayDays = Given(documentedDelayDays) =>
        \A p \in 1..Len(pipes) :
            LET requestDate == parseISO(pipes[p].date)
            IN  pipes[p].route = "historical"
                    <=> /\ requestDate.valid
                        /\ DayNumber(requestDate) < DayNumber(today) - 4

\* a bulk request with one day five days back, routed to historical, and one
\* day exactly four days back, routed to prediction
C4_Witness ==
    /\ kind = "bulk"
    /\ delayDays = Given(documentedDelayDays)
    /\ \E p, q \in 1..Len(pipes) :
           /\ pipes[p].route = "historical"
           /\ DayNumber(parseISO(pipes[p].date)) = DayNumber(today) - 5
           /\ pipes[q].route = "prediction"
           /\ parseISO(pipes[q].date).valid
           /\ DayNumber(parseISO(pipes[q].date)) = DayNumber(today) - 4

\* C5: when every year fetch of a prediction has failed, the pipeline ends
\* with an error that lists each year with the message of its failure,
\* nothing is aggregated, and GET answers with an error envelope without data.
C5_AllYearsFailed ==
    \A p \in 1..Len(pipes) :
        (PredictionEnded(pipes[p]) /\ SucceededCalls(pipes[p]) = {}) =>
            /\ ~pipes[p].ok
            /\ ~pipes[p].predicted
            /\ pipes[p].data = NoData
            /\ Len(pipes[p].error.yearErrors) = Len(pipes[p].calls)
            /\ \A c \in 1..Len(pipes[p].calls) :
                   /\ pipes[p].error.yearErrors[c].year = pipes[p].calls[c].year
                   /\ pipes[p].error.yearErrors[c].message
                          = pipes[p].calls[c].result.error.message
                   /\ pipes[p].error.yearErrors[c].message # ""
            /\ GetDone =>
                   /\ response.sent
                   /\ ~response.success
                   /\ response.status >= 400
                   /\ response.data = NoData

\* a GET request whose five year fetches all failed
C5_Witness ==
    /\ GetDone
    /\ PredictionEnded(pipes[1])
    /\ Cardinality(FailedCalls(pipes[1])) = minHistoricalYears
    /\ response.sent

\* C6: when at least one year fetch of a prediction has succeeded, the
\* pipeline ends with a result of dataType "prediction" and GET answers 200.
C6_OneYearIsEnough ==
    \A p \in 1..Len(pipes) :
        (PredictionEnded(pipes[p]) /\ SucceededCalls(pipes[p]) # {}) =>
            /\ pipes[p].ok
            /\ pipes[p].data.dataType = "prediction"
            /\ GetDone =>
                   /\ response.success
                   /\ response.status = 200
                   /\ response.data.dataType = "prediction"

\* a GET request answered with a prediction from one year out of five
C6_Witness ==
    /\ GetDone
    /\ PredictionEnded(pipes[1])
    /\ Cardinality(SucceededCalls(pipes[1])) = 1
    /\ Cardinality(FailedCalls(pipes[1])) = minHistoricalYears - 1
    /\ response.success

\* the code of the error envelope for a propagated error
EnvelopeCode(error) == IF error.code = "" THEN "INTERNAL_ERROR" ELSE error.code

\* C8: no step changes the route of a pipeline or the number of its calls;
\* a historical pipeline has its one call only, and when that call has failed
\* the pipeline ends with the very error of the call, without a prediction.
C8_Step ==
    /\ \A p \in 1..Len(pipes) :
           /\ p <= Len(pipes')
           /\ pipes'[p].route = pipes[p].route
           /\ Len(pipes'[p].calls) = Len(pipes[p].calls)
    /\ \A p \in 1..Len(pipes') :
           pipes'[p].route = "historical" =>
               /\ Len(pipes'[p].calls) = 1
               /\ pipes'[p].calls[1].date = pipes'[p].date
               /\ (pipes'[p].done /\ ~pipes'[p].calls[1].result.ok) =>
                      /\ ~pipes'[p].ok
                      /\ ~pipes'[p].predicted
                      /\ pipes'[p].error = pipes'[p].calls[1].result.error
                      /\ (kind = "get" /\ pc' = "done") =>
                             /\ response'.sent
                             /\ ~response'.success
                             /\ response'.code
                                    = EnvelopeCode(pipes'[p].calls[1].result.error)

C8_RouteChosenOnce == [][C8_Step]_vars

\* a GET request on the historical route whose call timed out
C8_Witness ==
    /\ GetDone
    /\ pipes[1].route = "historical"
    /\ pipes[1].done
    /\ ~pipes[1].calls[1].result.ok
    /\ pipes[1].error.code = "API_TIMEOUT"
    /\ response.status = 504

\* "YYYY-M-D": four digits, one or two digits, one or two digits
YMDForm(s) ==
    /\ Len(s) \in 8..10
    /\ s[5] = "-"
    /\ \E j \in {7, 8} :
           /\ s[j] = "-"
           /\ Len(s) - j \in 1..2
           /\ \A i \in (1..Len(s)) \ {5, j} : IsDigit(s[i])

OutOfRange(x, lo, hi) == x < lo \/ x > hi

\* the request fails validation for one of the reasons C9 names
FailsValidation ==
    \/ /\ kind = "get"
       /\ \/ OutOfRange(input.latitude, -90, 90)
          \/ OutOfRange(input.longitude, -180, 180)
          \/ ~YMDForm(input.date)
          \/ /\ input.historicalYears # <<>>
             /\ OutOfRange(input.historicalYears[1], 5, 30)
    \/ /\ kind = "bulk"
       /\ \/ Len(input.requests) = 0
          \/ Len(input.requests) > 10
          \/ \E i \in 1..Len(input.requests) :
                 \/ OutOfRange(input.requests[i].latitude, -90, 90)
                 \/ OutOfRange(input.requests[i].longitude, -180, 180)
                 \/ ~YMDForm(input.requests[i].date)
          \/ /\ input.historicalYears # <<>>
             /\ OutOfRange(input.historicalYears[1], 5, 30)

\* C9: a request that fails validation never starts a pipeline, hence no
\* upstream call, and is answered 400 VALIDATION_ERROR.
C9_InvalidRequestRejected ==
    FailsValidation =>
        /\ pipes = <<>>
        /\ pc \in {"start", "done"}
        /\ pc = "done" =>
               /\ response.sent
               /\ response.status = 400
               /\ response.code = "VALIDATION_ERROR"
               /\ ~response.success

\* a GET request for latitude 91 that has been answered
C9_Witness ==
    /\ kind = "get"
    /\ pc = "done"
    /\ input.latitude = 91
    /\ response.status = 400
    /\ pipes = <<>>

\* the month and day of a "YYYY-M-D" string, each written with two digits
Pad2(s) == IF Len(s) = 1 THEN <<"0">> \o s ELSE s

PaddedForm(s) ==
    LET j == CHOOSE k \in {7, 8} : s[k] = "-"
    IN  SubSeq(s, 1, 4) \o <<"-">> \o Pad2(SubSeq(s, 6, j - 1))
            \o <<"-">> \o Pad2(SubSeq(s, j + 1, Len(s)))

\* C10: normalizeDate zero-pads and is idempotent, and the pipeline of a GET
\* request works on the padded form: its date, its route, the start and end
\* of its upstream calls and the date of its response.
C10_NormalizedDateUsed ==
    /\ normalizeDate(<<"2", "0", "2", "5", "-", "1", "-", "1">>)
           = <<"2", "0", "2", "5", "-", "0", "1", "-", "0", "1">>
    /\ normalizeDate(<<"2", "0", "2", "5", "-", "0", "1", "-", "0", "1">>)
           = <<"2", "0", "2", "5", "-", "0", "1", "-", "0", "1">>
    /\ normalizeDate(<<"2", "0", "2", "5", "-", "1", "0", "-", "3">>)
           = <<"2", "0", "2", "5", "-", "1", "0", "-", "0", "3">>
    /\ (kind = "get" /\ YMDForm(input.date)) =>
           /\ normalizeDate(input.date) = PaddedForm(input.date)
           /\ normalizeDate(normalizeDate(input.date)) = normalizeDate(input.date)
    /\ (kind = "get" /\ Len(pipes) = 1) =>
           LET padded == PaddedForm(input.date)
               pipe == pipes[1]
           IN  /\ pipe.date = padded
               /\ delayDays # <<>> =>
                      (pipe.route = "historical"
                          <=> DayNumber(parseISO(padded))
                                  < DayNumber(today) - delayDays[1])
               /\ \A c \in 1..Len(pipe.calls) :
                      /\ SubSeq(pipe.calls[c].date, 5, 10) = SubSeq(padded, 5, 10)
                      /\ pipe.route = "historical" => pipe.calls[c].date = padded
                      /\ pipe.calls[c].settled =>
                             /\ pipe.calls[c].result.params.start
                                    = SubSeq(pipe.calls[c].date, 1, 4)
                                          \o SubSeq(padded, 6, 7)
                                          \o SubSeq(padded, 9, 10)
                             /\ pipe.calls[c].result.params.end
                                    = pipe.calls[c].result.params.start
               /\ (pc = "done" /\ response.success) =>
                      response.data.date = padded

\* a GET request written "2025-10-1", answered with the date "2025-10-01"
C10_Witness ==
    /\ GetDone
    /\ input.date = <<"2", "0", "2", "5", "-", "1", "0", "-", "1">>
    /\ pipes[1].date # input.date
    /\ pipes[1].calls[1].settled
    /\ response.success
    /\ response.data.date = <<"2", "0", "2", "5", "-", "1", "0", "-", "0", "1">>

\* the base query without the `parameters` key
QueryWithoutParameters == [BaseQuery EXCEPT !.parameters = Omitted]

\* C11 as stated: a GET request that omits `parameters` and is otherwise
\* valid is answered with a success response.
C11_OmittedParametersSucceed ==
    (kind = "get" /\ pc = "done" /\ input = QueryWithoutParameters) =>
        /\ response.success
        /\ response.status = 200

\* C12 as stated: under the configuration as shipped (no nasaDataDelayDays
\* key), a valid GET request for 2023-01-01 takes the historical route and
\* its success response has dataType "historical" and the requested date.
C12_PastDateIsHistorical ==
    (/\ kind = "get"
     /\ delayDays = nasaDataDelayDays
     /\ input.date = Written(2023, 1, 1, TRUE)
     /\ Len(pipes) = 1) =>
        /\ pipes[1].route = "historical"
        /\ (pc = "done" /\ response.success) =>
               /\ response.data.dataType = "historical"
               /\ response.data.date = input.date

\* the pipeline of one bulk item run on its own to its end
SoloPipe(request, historicalYears) ==
    LET parameterList == IF IsGiven(request.parameters)
                            /\ ValueOf(request.parameters) # <<>>
                         THEN split(ValueOf(request.parameters))
                         ELSE defaultParameters
        started == startPipeline(request.latitude, request.longitude,
                       request.date, parameterList, historicalYears,
                       today, delayDays)
        settled == [started EXCEPT !.calls =
                       [c \in 1..Len(started.calls) |->
                           [started.calls[c] EXCEPT
                               !.settled = TRUE,
                               !.result = fetchWeatherData(started.latitude,
                                   started.longitude, started.calls[c].date,
                                   started.calls[c].date, started.parameters,
                                   ScriptFor(started.calls[c].year))]]]
    IN  IF started.done THEN started
        ELSE IF started.route = "historical" THEN finishHistorical(settled)
        ELSE finishPrediction(settled)

BulkDone == kind = "bulk" /\ pc = "done" /\ Len(pipes) > 0

OkItems == {p \in 1..Len(pipes) : pipes[p].ok}

FailedItems == {p \in 1..Len(pipes) : ~pipes[p].ok}

\* C13: a validated bulk request is answered with a success envelope whose
\* counts add up to the number of items, whose errors hold exactly the
\* indices of the failed items, and whose results are, in item order, what
\* each successful item yields when it is run on its own.
C13_BulkItemsIsolated ==
    BulkDone =>
        /\ response.success
        /\ response.status = 200
        /\ Len(pipes) = Len(input.requests)
        /\ response.data.totalRequests = Len(input.requests)
        /\ response.data.successfulRequests = Cardinality(OkItems)
        /\ response.data.failedRequests = Cardinality(FailedItems)
        /\ response.data.successfulRequests + response.data.failedRequests
               = response.data.totalRequests
        /\ Len(response.data.errors) = Cardinality(FailedItems)
        /\ {response.data.errors[i].index : i \in 1..Len(response.data.errors)}
               = {p - 1 : p \in FailedItems}
        /\ Len(response.data.results) = Cardinality(OkItems)
        /\ \A p \in 1..Len(pipes) :
               LET solo == SoloPipe(input.requests[p],
                                    ValueOf(input.historicalYears))
               IN  /\ pipes[p].ok = solo.ok
                   /\ pipes[p].ok =>
                          response.data.results[
                              Cardinality({q \in OkItems : q <= p})] = solo.data

\* a bulk request answered with one failed and one successful item
C13_Witness ==
    /\ BulkDone
    /\ Len(pipes) = 2
    /\ Cardinality(OkItems) = 1
    /\ response.data.failedRequests = 1

\* a GET request on the historical route whose call has failed
HistoricalFailure ==
    /\ GetDone
    /\ pipes[1].route = "historical"
    /\ pipes[1].done
    /\ ~pipes[1].calls[1].result.ok

\* what the provider did on the last attempt of the call of pipeline 1
LastOutcome == ScriptFor(pipes[1].calls[1].year)[retryAttempts]

UpstreamTimedOut(o) == o.t = "error" /\ o.code \in {"ECONNABORTED", "ETIMEDOUT"}

UpstreamRateLimited(o) == o.t = "error" /\ o.status = 429

UpstreamUnavailable(o) ==
    /\ o.t = "error"
    /\ o.status >= 500 \/ o.code \in {"ENOTFOUND", "ECONNREFUSED"}

\* C14 as stated: a failure of the historical route is answered 504 for an
\* upstream timeout, 429 for an upstream 429, 502 or 503 for an unavailable
\* upstream.
C14_StatusOfUpstreamKind ==
    HistoricalFailure =>
        /\ UpstreamTimedOut(LastOutcome) => response.status = 504
        /\ UpstreamRateLimited(LastOutcome) => response.status = 429
        /\ UpstreamUnavailable(LastOutcome) => response.status \in {502, 503}

\* C14 amended: an upstream timeout is answered 504 API_TIMEOUT; an upstream
\* 429, like an upstream 5xx, is answered 502 EXTERNAL_API_ERROR; a
\* connection failure is answered 502 NETWORK_ERROR.
C14_StatusAmended ==
    HistoricalFailure =>
        /\ UpstreamTimedOut(LastOutcome) =>
               response.status = 504 /\ response.code = "API_TIMEOUT"
        /\ UpstreamRateLimited(LastOutcome) =>
               response.status = 502 /\ response.code = "EXTERNAL_API_ERROR"
        /\ UpstreamUnavailable(LastOutcome) =>
               /\ response.status = 502
               /\ response.code = IF LastOutcome.status >= 500
                                  THEN "EXTERNAL_API_ERROR" ELSE "NETWORK_ERROR"

\* a GET request on the historical route that the provider answered with 429
C14_Witness ==
    /\ HistoricalFailure
    /\ UpstreamRateLimited(LastOutcome)
    /\ pipes[1].error.upstreamStatus = 429
    /\ response.status = 502

\* C15 as stated: a GET request whose year fetches have all failed is
\* answered with status 502.
C15_AllYearsFailedIs502 ==
    (GetDone /\ PredictionEnded(pipes[1]) /\ SucceededCalls(pipes[1]) = {}) =>
        /\ ~response.success
        /\ response.status = 502

-----------------------------------------------------------------------------
(* Properties of processWeatherData on a prediction (SpecAggregate)        *)

\* the number of non-fill values of the hourly series of a parameter
NonFillCount(hourlyData, name) ==
    Cardinality({<<j, e>> \in (1..Len(hourlyData)) \X (1..HoursPerDay) :
                    /\ hourlyData[j].name = name
                    /\ e <= Len(hourlyData[j].values)
                    /\ hourlyData[j].values[e].value # -99900})

\* the years of the input that hold a dataset
YearsUsed == Cardinality({i \in 1..Len(input.historicalDataArray) :
                             input.historicalDataArray[i].ok})

\* the label of the ratio available / possible
LabelOfRatio(available, possible) ==
    CASE 10 * available >= 9 * possible -> "high"
      [] 10 * available < 9 * possible /\ 10 * available >= 7 * possible -> "medium"
      [] 10 * available < 7 * possible /\ 10 * available >= 5 * possible -> "low"
      [] OTHER -> "very_low"

-----------------------------------------------------------------------------
(* Properties of the upstream client (Spec)                                *)

Is4xx(outcome) == outcome.t = "error" /\ outcome.status \in 400..499

\* C17 as stated: the attempt of a call that receives a 4xx status is its
\* last attempt, and the call fails.
C17_No4xxRetry ==
    \A p \in 1..Len(pipes) : \A c \in 1..Len(pipes[p].calls) :
        pipes[p].calls[c].settled =>
            \A a \in 1..retryAttempts :
                (/\ a <= pipes[p].calls[c].result.attempts
                 /\ Is4xx(ScriptFor(pipes[p].calls[c].year)[a])) =>
                    /\ pipes[p].calls[c].result.attempts = a
                    /\ ~pipes[p].calls[c].result.ok

\* C18 as stated: a call whose every attempt got a response with a status
\* other than 200 fails with a normalized error of status 502.
C18_Non200Normalized ==
    \A p \in 1..Len(pipes) : \A c \in 1..Len(pipes[p].calls) :
        (/\ pipes[p].calls[c].settled
         /\ \A a \in 1..retryAttempts :
                ScriptFor(pipes[p].calls[c].year)[a].t = "status") =>
            /\ ~pipes[p].calls[c].result.ok
            /\ pipes[p].calls[c].result.error.code
                   \in {"EXTERNAL_API_ERROR", "NETWORK_ERROR"}
            /\ pipes[p].calls[c].result.error.statusCode = 502

\* C19 as stated: a request ended by the request-level timeout is answered
\* with an error envelope whose status and code denote a timeout.
C19_TimeoutIsReported ==
    pc = "timedout" =>
        /\ response.sent
        /\ ~response.success
        /\ response.status \in {408, 504}
        /\ response.code \in {"REQUEST_TIMEOUT", "API_TIMEOUT"}

-----------------------------------------------------------------------------
(* Properties of the CSV rendering (Spec)                                  *)

\* a GET request answered with a CSV text
CsvDone == GetDone /\ response.contentType = "text/csv"

\* the place of a parameter in the requested list
RequestedAt(name) ==
    CHOOSE k \in 1..Len(pipes[1].parameters) : pipes[1].parameters[k] = name

\* C20 as stated: the columns of the hourly table after "Hour" are requested
\* parameters and follow one another in the order of the request, on the
\* historical and on the prediction route.
C20_CsvColumnsInRequestOrder ==
    CsvDone =>
        LET columns == Tail(response.data.hourlyHeader)
        IN  /\ Head(response.data.hourlyHeader) = "Hour"
            /\ \A i \in 1..Len(columns) :
                   \E k \in 1..Len(pipes[1].parameters) :
                       pipes[1].parameters[k] = columns[i]
            /\ \A i, j \in 1..Len(columns) :
                   i < j => RequestedAt(columns[i]) < RequestedAt(columns[j])

-----------------------------------------------------------------------------
(* Missing data in the aggregation (SpecAggregate)                         *)

\* the positions of the hourly series the result holds for a parameter
ResultSeries(result, param) ==
    {j \in 1..Len(result.hourlyData) : result.hourlyData[j].name = param}

AnyYearSucceeded ==
    \E i \in 1..Len(input.historicalDataArray) : input.historicalDataArray[i].ok

\* C21: with at least one successful year dataset, calculatePrediction
\* followed by processWeatherData returns a prediction result whatever the
\* year datasets lack: every requested parameter keeps one hourly series,
\* every hour of the day has one entry in it, and an hour for which no year
\* holds an observed value (the parameter is missing, the hour is missing, or
\* the value is fill) carries the fill sentinel; a parameter without any
\* observed value has no daily aggregate.
C21_AbsenceIsFill ==
    (AggregateDone /\ AnyYearSucceeded) =>
        /\ aggregated.called
        /\ aggregated.result.dataType = "prediction"
        /\ \A n \in 1..Len(input.parameters) :
               LET param == input.parameters[n]
                   array == input.historicalDataArray
                   series == ResultSeries(aggregated.result, param)
               IN  /\ Cardinality(series) = 1
                   /\ \A j \in series :
                          LET values == aggregated.result.hourlyData[j].values
                          IN  /\ Len(values) = HoursPerDay
                              /\ \A hour \in Hours :
                                     /\ values[hour + 1].key =
                                            formatHourKey(input.targetDate, hour)
                                     /\ ObservedYears(array, param, hour) = {}
                                            => values[hour + 1].value = fillValue
                   /\ (\A hour \in Hours : ObservedYears(array, param, hour) = {})
                          => ~HasKey(aggregated.result.dailyAggregates, param)

\* successful years of which one lacks a requested parameter, one has the
\* parameter but not every hour of it, and one holds fill values, next to a
\* failed year
C21_Witness ==
    /\ AggregateDone
    /\ LET array == input.historicalDataArray
           okYears == {i \in 1..Len(array) : array[i].ok}
       IN  /\ \E i \in 1..Len(array) : ~array[i].ok
           /\ \E i \in okYears : \E n \in 1..Len(input.parameters) :
                  ~HasKey(array[i].data.parameter, input.parameters[n])
           /\ \E i \in okYears : \E n \in 1..Len(input.parameters) :
                  /\ HasKey(array[i].data.parameter, input.parameters[n])
                  /\ \E hour \in Hours :
                         EntriesOf(array[i], input.parameters[n], hour) = {}
           /\ \E i \in okYears : \E n \in 1..Len(input.parameters) :
                  \E hour \in Hours :
                      FillYears(<<array[i]>>, input.parameters[n], hour) # {}
    /\ \E j \in 1..Len(aggregated.result.hourlyData) :
           \E e \in 1..HoursPerDay :
               aggregated.result.hourlyData[j].values[e].value = fillValue

-----------------------------------------------------------------------------
(* The retry loop of makeRequest (SpecMakeRequest)                         *)

RequestEnded == kind = "request" /\ pc \in {"returned", "thrown"}

\* the positions of the trace that are HTTP attempts
Gets(trace) == {i \in 1..Len(trace) : trace[i].e = "get"}

\* C22: makeRequest issues at most retryAttempts attempts; an attempt that
\* yields a 200 response is the last thing the call does; an attempt k <
\* retryAttempts that does not yield a 200 response is followed by a delay of
\* retryDelay * k before attempt k + 1; the last attempt is followed by no
\* delay, and a call that ends without a 200 response throws the error of
\* its last attempt.
C22_RetrySchedule ==
    kind = "request" =>
        LET trace == aggregated.trace
            script == input.script
        IN  /\ Cardinality(Gets(trace)) <= retryAttempts
            /\ \A i \in Gets(trace) :
                   /\ trace[i].n \in 1..retryAttempts
                   /\ script[trace[i].n].t = "ok" =>
                          (i = Len(trace) /\ pc = "returned")
                   /\ (script[trace[i].n].t # "ok" /\ trace[i].n < retryAttempts
                       /\ i < Len(trace)) =>
                          /\ trace[i + 1] =
                                 [e |-> "delay", n |-> retryDelay * trace[i].n]
                          /\ i + 1 < Len(trace) =>
                                 trace[i + 2] = [e |-> "get", n |-> trace[i].n + 1]
            /\ pc = "thrown" =>
                   /\ trace[Len(trace)] = [e |-> "get", n |-> retryAttempts]
                   /\ aggregated.thrown = Given(script[retryAttempts])

-----------------------------------------------------------------------------
(* The join of fetchHistoricalDataForPrediction (Spec)                     *)

\* the fetch of call c of pipeline p, made on its own
FetchAlone(pipe, call) ==
    fetchWeatherData(pipe.latitude, pipe.longitude, call.date, call.date,
                     pipe.parameters, ScriptFor(call.year))

\* a prediction pipeline that issued its year fetches
FanOut(pipe) == pipe.route = "prediction" /\ Len(pipe.calls) > 0

\* C23: the year fetches of a prediction are all in flight from the moment
\* the pipeline has started; the pipeline has gone on (Promise.all resolved
\* and the results processed) only when every fetch has settled; in every
\* interleaving a settled fetch holds the outcome it has when made alone, and
\* a fetch that has not settled can still settle, whatever the other fetches
\* did.
C23_FanOutFanIn ==
    \A p \in 1..Len(pipes) :
        FanOut(pipes[p]) =>
            /\ Len(pipes[p].calls) = pipes[p].historicalYears
            /\ pipes[p].done =>
                   \A c \in 1..Len(pipes[p].calls) : pipes[p].calls[c].settled
            /\ \A c \in 1..Len(pipes[p].calls) :
                   IF pipes[p].calls[c].settled
                   THEN pipes[p].calls[c].result =
                            FetchAlone(pipes[p], pipes[p].calls[c])
                   ELSE /\ ~pipes[p].done
                        /\ ENABLED FetchSettle(p, c)

\* a later fetch has failed and an earlier one has succeeded while a third
\* is still in flight
C23_Witness ==
    \E p \in 1..Len(pipes) :
        /\ FanOut(pipes[p])
        /\ ~pipes[p].done
        /\ \E c1, c2, c3 \in 1..Len(pipes[p].calls) :
               /\ c1 < c2 /\ c2 < c3
               /\ pipes[p].calls[c1].settled /\ pipes[p].calls[c1].result.ok
               /\ ~pipes[p].calls[c2].settled
               /\ pipes[p].calls[c3].settled /\ ~pipes[p].calls[c3].result.ok

-----------------------------------------------------------------------------
(* The years a prediction fetches (Spec)                                   *)

\* the fetches of a prediction pipeline are those of the years today.y - 1
\* down to today.y - N, each for that year's day with the target's month-day
FetchesOfLastYears(pipe) ==
    /\ Len(pipe.calls) = pipe.historicalYears
    /\ \A i \in 1..Len(pipe.calls) :
           /\ pipe.calls[i].year = today.y - i
           /\ pipe.calls[i].date =
                  NatToStr(today.y - i) \o SubSeq(pipe.date, 5, Len(pipe.date))
           /\ pipe.calls[i].settled =>
                  /\ pipe.calls[i].result.params.start
                         = removeDashes(pipe.calls[i].date)
                  /\ pipe.calls[i].result.params.end
                         = removeDashes(pipe.calls[i].date)

-----------------------------------------------------------------------------
(* The shape of a predicted series (SpecAggregate)                         *)

\* YYYYMMDDHH of a day written YYYY-MM-DD and an hour
KeyOfHour(date, hour) ==
    SelectSeq(date, LAMBDA ch : ch # "-")
        \o <<Digits[(hour \div 10) + 1], Digits[(hour % 10) + 1]>>

\* a predicted value is the mean, to the nearest hundredth, of the values
\* the years observed for the hour
IsMeanOfObserved(predicted, array, param, hour) ==
    LET years == ObservedYears(array, param, hour)
    IN  /\ years # {}
        /\ 2 * Abs(Cardinality(years) * predicted
                   - SumObserved(array, years, param, hour))
               <= Cardinality(years)

\* C25: the prediction holds one series per requested parameter; the series
\* has exactly 24 entries, the h-th under the key made of the target date
\* without dashes and the two-digit hour h - 1; each value is the fill
\* sentinel or the mean of the observed values of that hour.  This holds for
\* any number of successful years, none included.
C25_TwentyFourKeys ==
    AggregateDone =>
        /\ Len(aggregated.prediction.parameter) = Len(input.parameters)
        /\ \A n \in 1..Len(input.parameters) :
               LET series == aggregated.prediction.parameter[n]
               IN  /\ series.name = input.parameters[n]
                   /\ Len(series.values) = 24
                   /\ \A h \in 1..Len(series.values) :
                          /\ series.values[h].key
                                 = KeyOfHour(input.targetDate, h - 1)
                          /\ \/ series.values[h].value = fillValue
                             \/ IsMeanOfObserved(series.values[h].value,
                                    input.historicalDataArray,
                                    input.parameters[n], h - 1)

\* a series that holds a mean at one hour and fill at another, computed
\* from an array with a failed year
C25_Witness ==
    /\ AggregateDone
    /\ \E i \in 1..Len(input.historicalDataArray) :
           ~input.historicalDataArray[i].ok
    /\ \E n \in 1..Len(aggregated.prediction.parameter) :
           LET values == aggregated.prediction.parameter[n].values
           IN  /\ Len(values) = 24
               /\ \E h \in 1..24 : values[h].value = fillValue
               /\ \E h \in 1..24 : values[h].value # fillValue

\* no year succeeded: every series still has its 24 keys
C25_WitnessNoYear ==
    /\ AggregateDone
    /\ ~AnyYearSucceeded
    /\ Len(aggregated.prediction.parameter) = 2

-----------------------------------------------------------------------------
(* Daily aggregates (SpecAggregate)                                        *)

\* the positions of a series that hold a value other than the fill sentinel
NonFill(values) == {e \in 1..Len(values) : values[e].value # -99900}

RECURSIVE SumAt(_, _)
SumAt(values, positions) ==
    IF positions = {} THEN 0
    ELSE LET e == CHOOSE x \in positions : TRUE
         IN  values[e].value + SumAt(values, positions \ {e})

\* the daily aggregates of the result under a parameter's name
AggregatesOf(result, name) ==
    {a \in 1..Len(result.dailyAggregates) : result.dailyAggregates[a].name = name}

\* C26: a parameter of the result has a daily aggregate exactly when its
\* hourly series holds a non-fill value; its min and max are the smallest
\* and the largest non-fill value of the series, its mean is the average of
\* the non-fill values alone (to the nearest hundredth), and min <= mean <=
\* max; a series of 24 fill values stays in hourlyData without aggregate.
C26_AggregatesOfNonFill ==
    AggregateDone =>
        /\ Len(aggregated.result.hourlyData) = Len(input.parameters)
        /\ \A j \in 1..Len(input.parameters) :
               LET values == aggregated.result.hourlyData[j].values
                   name == aggregated.result.hourlyData[j].name
                   kept == NonFill(values)
                   found == AggregatesOf(aggregated.result, name)
               IN  /\ name = input.parameters[j]
                   /\ Len(values) = 24
                   /\ Cardinality(found) = (IF kept = {} THEN 0 ELSE 1)
                   /\ \A a \in found :
                          LET entry == aggregated.result.dailyAggregates[a]
                          IN  /\ \E e \in kept : values[e].value = entry.min
                              /\ \A e \in kept : values[e].value >= entry.min
                              /\ \E e \in kept : values[e].value = entry.max
                              /\ \A e \in kept : values[e].value <= entry.max
                              /\ 2 * Abs(Cardinality(kept) * entry.mean
                                         - SumAt(values, kept))
                                     <= Cardinality(kept)
                              /\ entry.min <= entry.mean
                              /\ entry.mean <= entry.max
        /\ \A a \in 1..Len(aggregated.result.dailyAggregates) :
               \E j \in 1..Len(input.parameters) :
                   aggregated.result.dailyAggregates[a].name = input.parameters[j]

\* a result with one series of fill and observed values that has its
\* aggregate and one series of 24 fill values that has none
C26_Witness ==
    /\ AggregateDone
    /\ Len(aggregated.result.hourlyData) = 2
    /\ Len(aggregated.result.dailyAggregates) = 1
    /\ \E j \in 1..2 :
           LET values == aggregated.result.hourlyData[j].values
           IN  /\ NonFill(values) # {}
               /\ NonFill(values) # 1..24
               /\ aggregated.result.dailyAggregates[1].name
                      = aggregated.result.hourlyData[j].name
               /\ aggregated.result.dailyAggregates[1].min
                      < aggregated.result.dailyAggregates[1].max
    /\ \E j \in 1..2 :
           NonFill(aggregated.result.hourlyData[j].values) = {}

-----------------------------------------------------------------------------
(* Two requests in flight together (SpecConcurrent)                        *)

\* what a GET request is answered when it is the only one
SoloResponse(query) ==
    LET validation == validateWeatherRequest(query, today)
    IN  IF ~validation.isValid
        THEN handleError(createValidationErrorWithDetails(validation.errors))
        ELSE IF ~IsGiven(ValueOf(validation.data).parameters)
        THEN handleError(Error("TypeError",
                 "Cannot read properties of undefined (reading 'split')",
                 "", 0, 0))
        ELSE LET data == ValueOf(validation.data)
             IN  getResponse(
                     SoloPipe([latitude |-> data.latitude,
                               longitude |-> data.longitude,
                               date |-> data.date,
                               parameters |-> data.parameters],
                              data.historicalYears),
                     data.format)

\* the part of the state that belongs to request r
OwnState(pp, agg, r) == <<pp[r], agg.pcs[r], agg.responses[r]>>

C27_Step ==
    kind = "pair" =>
        /\ \A r \in 1..2 :
               aggregated'.pcs[r] = "done" =>
                   aggregated'.responses[r] = SoloResponse(input[r])
        /\ \E r \in 1..2 : \A q \in (1..2) \ {r} :
               OwnState(pipes', aggregated', q) = OwnState(pipes, aggregated, q)

-----------------------------------------------------------------------------
(* One response per request (Spec)                                         *)

C28_FirstAnswerStands ==
    [][response.sent => response' = response]_vars

-----------------------------------------------------------------------------
(* The confidence of a whole prediction (Spec)                             *)

\* a GET request answered with a prediction for which every year fetch
\* succeeded
PredictedFromAllYears ==
    /\ GetDone
    /\ response.success
    /\ pipes[1].predicted
    /\ Len(pipes[1].calls) >= minHistoricalYears
    /\ FailedCalls(pipes[1]) = {}

\* no hourly value of the answer is the fill sentinel
NoFillInAnswer ==
    \A j \in 1..Len(pipes[1].data.hourlyData) :
        NonFill(pipes[1].data.hourlyData[j].values) = 1..24

\* C29: a prediction in which every year succeeds and no hourly value is
\* fill has confidence "high" for its parameters.
C29_AllObservedIsHigh ==
    (PredictedFromAllYears /\ NoFillInAnswer) =>
        /\ Len(pipes[1].data.dailyAggregates) > 0
        /\ \A a \in 1..Len(pipes[1].data.dailyAggregates) :
               pipes[1].data.dailyAggregates[a].confidence = "high"

\* what holds instead: with all of five or more years used, every
\* confidence label is "very_low"
C29_OnlyVeryLow ==
    PredictedFromAllYears =>
        \A a \in 1..Len(pipes[1].data.dailyAggregates) :
            pipes[1].data.dailyAggregates[a].confidence = "very_low"

-----------------------------------------------------------------------------
(* The days a prediction fetches, against the data cutoff (Spec)           *)

\* every day the pipeline has asked the provider for is a calendar day
\* strictly before the data cutoff and is not the target date
FetchedBeforeCutoff(pipe) ==
    \A c \in 1..Len(pipe.calls) :
        /\ DateLess(parseISO(pipe.calls[c].date),
                    nasaDataCutoff(today, delayDays))
        /\ pipe.calls[c].date # pipe.date

\* C30: every historical date fetched on the prediction path is strictly
\* earlier than the data cutoff (today minus delayDays) and is never the
\* target date itself, for every today and every target date routed to
\* prediction, target dates of the previous calendar year included.
C30_FetchedBeforeCutoff ==
    \A p \in 1..Len(pipes) :
        pipes[p].route = "prediction" => FetchedBeforeCutoff(pipes[p])

\* the same with the delay configured: the fetched days of a prediction are
\* before the cutoff and differ from the target date
C30_WithDelayConfigured ==
    IsGiven(delayDays) => C30_FetchedBeforeCutoff

\* with the delay configured, a prediction whose target date is not of an
\* earlier year than today fetches only days before the cutoff, none of them
\* the target date
C30_TargetOfThisYearOrLater ==
    IsGiven(delayDays) =>
        \A p \in 1..Len(pipes) :
            (/\ pipes[p].route = "prediction"
             /\ isValid(parseISO(pipes[p].date))
             /\ parseISO(pipes[p].date).y >= today.y)
                => FetchedBeforeCutoff(pipes[p])

\* a prediction for a day of the lag window that lies in the previous year
\* has fetched that day itself, the delay being configured
C30_TargetFetched ==
    \E p \in 1..Len(pipes) :
        /\ IsGiven(delayDays)
        /\ pipes[p].route = "prediction"
        /\ parseISO(pipes[p].date).y = today.y - 1
        /\ Len(pipes[p].calls) > 0
        /\ pipes[p].calls[1].date = pipes[p].date
        /\ pipes[p].calls[1].settled

====
